---- MODULE Spec2Model ----
(***************************************************************************)
(* State-machine model of streamlit_style_checker.py: the StyleFixer      *)
(* (generate_fixes / apply_fixes), the ContentExtractor and the rule       *)
(* engine StreamlitStyleChecker.check_content.                             *)
(*                                                                         *)
(* A Python str is modelled as a sequence of one-character strings, so     *)
(* that split, join, replace, find, lower and the regular expressions are  *)
(* computed character by character as the interpreter computes them.       *)
(***************************************************************************)
EXTENDS Integers, Sequences, FiniteSets, TLC

VARIABLES
    config,         \* the configuration mapping (StreamlitStyleChecker.config)
    issues,         \* StreamlitStyleChecker.issues
    text_content,   \* ContentExtractor.text_content: the fragments
    line_mapping,   \* ContentExtractor.line_mapping / checker.line_mapping
    headings,       \* ContentExtractor.headings / checker.headings
    fixes_applied,  \* StyleFixer.fixes_applied
    op,             \* the operation that ran last
    content,        \* the text the operations are called with
    fixes,          \* the Edits apply_fixes is called with
    result,         \* the text returned by the last apply_fixes
    raised          \* TRUE when the last operation ended in an exception

checker_vars == <<config, issues, text_content, line_mapping, headings>>
vars == <<config, issues, text_content, line_mapping, headings,
          fixes_applied, op, content, fixes, result, raised>>

NL == "\n"

(***************************************************************************)
(* Bounds of the model.                                                    *)
(***************************************************************************)
MaxTextLen == 3     \* characters of a text handed to apply_fixes
MaxFixes == 2       \* Edits in one apply_fixes call
MaxLineNo == 2      \* largest target line of an Edit
MaxNegLineNo == 1   \* target lines go down to -MaxNegLineNo
MaxApplied == 4     \* cap on Len(fixes_applied) of one StyleFixer
MaxDocLines == 2     \* lines of a document of the pipeline

(***************************************************************************)
(* Python str primitives.                                                  *)
(***************************************************************************)
StartsWith(s, p) == Len(p) <= Len(s) /\ SubSeq(s, 1, Len(p)) = p

\* s.split('\n'): line k runs from after the (k-1)th line break to before
\* the kth
str_split(s) ==
    LET breaks == {i \in 1..Len(s) : s[i] = NL}
        \* the position of the kth line break; 0 and Len(s) + 1 close the ends
        break_at(k) ==
            IF k = 0 THEN 0
            ELSE IF k > Cardinality(breaks) THEN Len(s) + 1
            ELSE CHOOSE p \in breaks : Cardinality({q \in breaks : q < p}) = k - 1
    IN <<>> \o [k \in 1..(Cardinality(breaks) + 1) |->
                  SubSeq(s, break_at(k - 1) + 1, break_at(k) - 1)]

\* '\n'.join(lines)
RECURSIVE str_join(_)
str_join(lines) ==
    IF Len(lines) = 0 THEN <<>>
    ELSE IF Len(lines) = 1 THEN lines[1]
    ELSE lines[1] \o <<NL>> \o str_join(Tail(lines))

\* A replace that stops after the first occurrence (s.replace(old, new, 1)).
str_replace_first(s, old, new) ==
    IF \E i \in 1..(Len(s) + 1) : StartsWith(SubSeq(s, i, Len(s)), old)
    THEN LET i == CHOOSE k \in 1..(Len(s) + 1) :
                    /\ StartsWith(SubSeq(s, k, Len(s)), old)
                    /\ \A j \in 1..(k - 1) : ~StartsWith(SubSeq(s, j, Len(s)), old)
         IN SubSeq(s, 1, i - 1) \o new \o SubSeq(s, i + Len(old), Len(s))
    ELSE s

\* s.replace(old, new): every non-overlapping occurrence, scanning from the
\* left; an empty old matches before every character and at the end.
RECURSIVE str_replace(_, _, _)
str_replace(s, old, new) ==
    IF old = <<>> THEN
        IF s = <<>> THEN new
        ELSE new \o <<Head(s)>> \o str_replace(Tail(s), old, new)
    ELSE IF s = <<>> THEN <<>>
    ELSE IF StartsWith(s, old)
         THEN new \o str_replace(SubSeq(s, Len(old) + 1, Len(s)), old, new)
         ELSE <<Head(s)>> \o str_replace(Tail(s), old, new)

\* The characters of the model's texts.
UpperChars == <<"A", "B", "C", "D", "E", "F", "G", "H", "I", "J", "K", "L", "M", "N", "O", "P", "Q", "R", "S", "T", "U", "V", "W", "X", "Y", "Z">>
LowerChars == <<"a", "b", "c", "d", "e", "f", "g", "h", "i", "j", "k", "l", "m", "n", "o", "p", "q", "r", "s", "t", "u", "v", "w", "x", "y", "z">>
DigitChars == <<"0", "1", "2", "3", "4", "5", "6", "7", "8", "9">>
SpaceChars == {" ", NL}
OtherChars == {"'", ",", ".", "<", ">", "/", "_", ":", ";", "-", "\"", "(", ")", "!", "["}
Range(f) == {f[i] : i \in DOMAIN f}
Alphabet ==
    Range(UpperChars) \cup Range(LowerChars) \cup Range(DigitChars)
        \cup SpaceChars \cup OtherChars

\* c.lower(), c.upper(), c.isupper(), int(c) of one character
char_lower == [c \in Alphabet |->
    IF c \in Range(UpperChars)
    THEN LowerChars[CHOOSE i \in 1..26 : UpperChars[i] = c] ELSE c]
char_upper == [c \in Alphabet |->
    IF c \in Range(LowerChars)
    THEN UpperChars[CHOOSE i \in 1..26 : LowerChars[i] = c] ELSE c]
char_isupper(c) == c \in Range(UpperChars)
char_int(c) == (CHOOSE i \in 1..10 : DigitChars[i] = c) - 1
\* \w and \s of the re module
is_word(c) ==
    c \in Range(UpperChars) \cup Range(LowerChars) \cup Range(DigitChars) \cup {"_"}
is_space(c) == c \in SpaceChars

Min(S) == CHOOSE x \in S : \A y \in S : x <= y
Max(S) == CHOOSE x \in S : \A y \in S : y <= x

\* s.lower()
str_lower(s) == [i \in 1..Len(s) |-> char_lower[s[i]]]
\* s.upper()
str_upper(s) == [i \in 1..Len(s) |-> char_upper[s[i]]]
\* s.istitle(): there is a cased character, upper-case characters follow
\* uncased ones only, and lower-case characters cased ones only
is_cased(c) == c \in Range(UpperChars) \cup Range(LowerChars)
str_istitle(s) ==
    /\ \E i \in 1..Len(s) : is_cased(s[i])
    /\ \A i \in 1..Len(s) :
          /\ s[i] \in Range(UpperChars) => (i = 1 \/ ~is_cased(s[i - 1]))
          /\ s[i] \in Range(LowerChars) => (i > 1 /\ is_cased(s[i - 1]))
\* s.split(): the runs of characters other than white space, in order
str_words(s) ==
    LET starts == {i \in 1..Len(s) : ~is_space(s[i]) /\ (i = 1 \/ is_space(s[i - 1]))}
        stop(i) == Min({j \in i..Len(s) : j = Len(s) \/ is_space(s[j + 1])})
        start(k) == CHOOSE i \in starts : Cardinality({j \in starts : j < i}) = k - 1
    IN [k \in 1..Cardinality(starts) |-> SubSeq(s, start(k), stop(start(k)))]
\* ' '.join(words)
RECURSIVE str_join_words(_)
str_join_words(words) ==
    IF Len(words) = 0 THEN <<>>
    ELSE IF Len(words) = 1 THEN words[1]
    ELSE words[1] \o <<" ">> \o str_join_words(Tail(words))
\* s.capitalize(): the first character upper-cased, the rest lower-cased
str_capitalize(s) ==
    [i \in 1..Len(s) |-> IF i = 1 THEN char_upper[s[i]] ELSE char_lower[s[i]]]
\* p occurs in s at position i (of 1..Len(s) - Len(p) + 1), and p in s
occurs_at(s, p, i) ==
    p = <<>> \/ (s[i] = p[1] /\ SubSeq(s, i, i + Len(p) - 1) = p)
str_contains(s, p) == \E i \in 1..(Len(s) - Len(p) + 1) : occurs_at(s, p, i)
\* s.find(p) + 1: the 1-based position of the first occurrence, 0 when none
str_find(s, p) ==
    LET at == {i \in 1..(Len(s) - Len(p) + 1) : occurs_at(s, p, i)}
    IN IF at = {} THEN 0 ELSE Min(at)
\* s.strip()
str_strip(s) ==
    LET keep == {i \in 1..Len(s) : ~is_space(s[i])}
    IN IF keep = {} THEN <<>> ELSE SubSeq(s, Min(keep), Max(keep))

(***************************************************************************)
(* StyleFixer.apply_fixes                                                  *)
(***************************************************************************)
\* Insert f in a list already sorted by descending line_number, before the
\* first element that does not have a larger line_number: with
\* sorted_fixes below this is Python's stable sorted(..., reverse=True).
RECURSIVE insert_fix(_, _)
insert_fix(f, sorted) ==
    IF sorted = <<>> THEN <<f>>
    ELSE IF Head(sorted).line_number <= f.line_number THEN <<f>> \o sorted
    ELSE <<Head(sorted)>> \o insert_fix(f, Tail(sorted))

\* An ascending sort (reverse=True forgotten).
RECURSIVE sorted_fixes_ascending(_)
sorted_fixes_ascending(fs) ==
    IF fs = <<>> THEN <<>>
    ELSE LET rest == sorted_fixes_ascending(Tail(fs))
             f == Head(fs)
             k == Cardinality({i \in 1..Len(rest) : rest[i].line_number < f.line_number})
         IN SubSeq(rest, 1, k) \o <<f>> \o SubSeq(rest, k + 1, Len(rest))

\* sorted(fixes, key=lambda f: f.line_number, reverse=True)
RECURSIVE sorted_fixes(_)
sorted_fixes(fs) ==
    IF fs = <<>> THEN <<>>
    ELSE insert_fix(Head(fs), sorted_fixes(Tail(fs)))

\* The loop of apply_fixes over sorted_fixes.  lines[line_idx] follows
\* Python's list indexing: a negative line_idx counts from the end of the
\* list, and an index below -len(lines) raises IndexError, which leaves the
\* method before line 74 records the fix.
RECURSIVE apply_loop(_, _, _)
apply_loop(lines, todo, applied) ==
    IF todo = <<>> THEN [lines |-> lines, applied |-> applied, raised |-> FALSE]
    ELSE LET fix == Head(todo) IN
         IF fix.line_number <= Len(lines)
         THEN LET line_idx == fix.line_number - 1 IN
              IF line_idx < 0 - Len(lines)
              THEN [lines |-> lines, applied |-> applied, raised |-> TRUE]
              ELSE LET pos == IF line_idx >= 0 THEN line_idx + 1
                              ELSE Len(lines) + line_idx + 1
                   IN apply_loop(
                          [lines EXCEPT ![pos] =
                              str_replace(@, fix.original_text, fix.fixed_text)],
                          Tail(todo), Append(applied, fix))
         ELSE apply_loop(lines, Tail(todo), applied)

\* apply_fixes(content, fixes): the returned text (none when it raised), the
\* Edits appended to fixes_applied, and whether IndexError was raised.
apply_fixes(c, fs) ==
    LET r == apply_loop(str_split(c), sorted_fixes(fs), <<>>)
    IN [text |-> IF r.raised THEN <<>> ELSE str_join(r.lines),
        applied |-> r.applied,
        raised |-> r.raised]

(***************************************************************************)
(* Markup.  The documents of the model hold text, tags of the forms <name> *)
(* and </name>, and the marked section <![x> (no attributes, comments,     *)
(* entities, CDATA or other declarations, and every '<' opens a tag that   *)
(* is closed by '>').  On such input xml.etree.ElementTree.fromstring and  *)
(* html.parser.HTMLParser see the same sequence of start tags, end tags    *)
(* and text runs, which tokenize computes; <![x> is not well-formed XML,   *)
(* and html.parser raises AssertionError on it (_markupbase                *)
(* parse_marked_section: unknown status keyword).                          *)
(***************************************************************************)
Token(kind, name, text) == [kind |-> kind, name |-> name, text |-> text]
s_marked == <<"!", "[", "x">>

RECURSIVE tokenize(_)
tokenize(s) ==
    IF s = <<>> THEN <<>>
    ELSE IF Head(s) = "<"
    THEN LET close == str_find(s, <<">">>)
             inner == SubSeq(s, 2, close - 1)
             rest == SubSeq(s, close + 1, Len(s))
         IN IF inner # <<>> /\ Head(inner) = "/"
            THEN <<Token("end", Tail(inner), <<>>)>> \o tokenize(rest)
            ELSE IF inner = s_marked
            THEN <<Token("marked", inner, <<>>)>> \o tokenize(rest)
            ELSE <<Token("start", inner, <<>>)>> \o tokenize(rest)
    ELSE LET open == str_find(s, <<"<">>)
             stop == IF open = 0 THEN Len(s) ELSE open - 1
         IN <<Token("text", <<>>, SubSeq(s, 1, stop))>>
                \o tokenize(SubSeq(s, stop + 1, Len(s)))

\* An Element of ElementTree: tag, text, children, tail (None is <<>>).
Element(tag, text, children, tail) ==
    [tag |-> tag, text |-> text, children |-> children, tail |-> tail]
NoElement == Element(<<>>, <<>>, <<>>, <<>>)

\* The element that starts at the start tag toks[i], and the children of an
\* open element from toks[j] on: ok is FALSE where expat raises ParseError
\* (mismatched tag, missing end tag).
RECURSIVE xml_element(_, _)
RECURSIVE xml_children(_, _)
xml_element(toks, i) ==
    LET hasText == i + 1 <= Len(toks) /\ toks[i + 1].kind = "text"
        kids == xml_children(toks, IF hasText THEN i + 2 ELSE i + 1)
    IN IF kids.ok /\ toks[kids.next].name = toks[i].name
       THEN [ok |-> TRUE,
             elem |-> Element(toks[i].name,
                              IF hasText THEN toks[i + 1].text ELSE <<>>,
                              kids.children, <<>>),
             next |-> kids.next + 1]
       ELSE [ok |-> FALSE, elem |-> NoElement, next |-> 0]

xml_children(toks, j) ==
    IF j > Len(toks) THEN [ok |-> FALSE, children |-> <<>>, next |-> 0]
    ELSE IF toks[j].kind = "end" THEN [ok |-> TRUE, children |-> <<>>, next |-> j]
    ELSE IF toks[j].kind = "start"
    THEN LET e == xml_element(toks, j) IN
         IF ~e.ok THEN [ok |-> FALSE, children |-> <<>>, next |-> 0]
         ELSE LET hasTail == e.next <= Len(toks) /\ toks[e.next].kind = "text"
                  child == [e.elem EXCEPT !.tail =
                                IF hasTail THEN toks[e.next].text ELSE <<>>]
                  rest == xml_children(toks, IF hasTail THEN e.next + 1 ELSE e.next)
              IN [rest EXCEPT !.children = <<child>> \o @]
    ELSE [ok |-> FALSE, children |-> <<>>, next |-> 0]

\* ET.fromstring(markup): one root element, with nothing but white space
\* before and after it; anything else is a ParseError.
ET_fromstring(markup) ==
    LET toks == tokenize(markup)
        blank(t) == t.kind = "text" /\ str_strip(t.text) = <<>>
        first == IF toks # <<>> /\ blank(toks[1]) THEN 2 ELSE 1
    IN IF first > Len(toks) \/ toks[first].kind # "start"
       THEN [ok |-> FALSE, root |-> NoElement]
       ELSE LET e == xml_element(toks, first) IN
            IF e.ok /\ (e.next > Len(toks)
                          \/ (e.next = Len(toks) /\ blank(toks[e.next])))
            THEN [ok |-> TRUE, root |-> e.elem]
            ELSE [ok |-> FALSE, root |-> NoElement]

(***************************************************************************)
(* ContentExtractor and HTMLContentParser                                  *)
(***************************************************************************)
\* The three fields of an extractor after extract_content returned; where
\* it raised instead, raised is TRUE and the fields are as lines 351-353
\* left them.
Extracted(tc, lm, hs) ==
    [text_content |-> tc, line_mapping |-> lm, headings |-> hs, raised |-> FALSE]
NothingExtracted == Extracted(<<>>, <<>>, <<>>)
Heading(level, text, line) == [level |-> level, text |-> text, line |-> line]

\* tag.lower() in ['h1', 'h2', 'h3', 'h4', 'h5', 'h6']
is_heading_tag(tag) ==
    /\ Len(tag) = 2
    /\ char_lower[tag[1]] = "h"
    /\ tag[2] \in {"1", "2", "3", "4", "5", "6"}
\* int(tag.lower()[1])
heading_level(tag) == char_int(tag[2])

\* A search that would answer 0 where no line holds the text.
find_text_line_or_zero(text, original_lines) ==
    LET holding == {i \in 1..Len(original_lines) : str_contains(original_lines[i], text)}
    IN IF holding = {} THEN 0 ELSE Min(holding)

\* The last line that holds the text, not the first.
find_last_text_line(text, original_lines) ==
    LET holding == {i \in 1..Len(original_lines) : str_contains(original_lines[i], text)}
    IN IF holding = {} THEN 1 ELSE Max(holding)

\* ContentExtractor._find_text_line and HTMLContentParser._find_text_line
find_text_line(text, original_lines) ==
    LET holding == {i \in 1..Len(original_lines) : str_contains(original_lines[i], text)}
    IN IF holding = {} THEN 1 ELSE Min(holding)

\* One step of an extraction: text_content.append(text);
\* line_mapping[len(text_content)] = line; and, where level is not 0,
\* headings.append((level, text, line)).  An extraction is the sequence of
\* its steps, and extracted(steps) is what the three fields hold after them.
Fragment(text, line, level) == [text |-> text, line |-> line, level |-> level]
\* How a strategy ends: with the steps it made, or with an exception that
\* neither except clause (lines 360, 378) catches.
Completes(steps) == [raised |-> FALSE, steps |-> steps]
Raises == [raised |-> TRUE, steps |-> <<>>]

\* Fields whose headings would all be attributed to the first source line.
extracted_headings_on_first_line(steps) ==
    LET hs == SelectSeq(steps, LAMBDA f : f.level # 0) IN
    Extracted([i \in 1..Len(steps) |-> steps[i].text],
              [i \in 1..Len(steps) |-> steps[i].line],
              [i \in 1..Len(hs) |-> Heading(hs[i].level, hs[i].text, 1)])

extracted(steps) ==
    LET hs == SelectSeq(steps, LAMBDA f : f.level # 0) IN
    Extracted([i \in 1..Len(steps) |-> steps[i].text],
              [i \in 1..Len(steps) |-> steps[i].line],
              [i \in 1..Len(hs) |-> Heading(hs[i].level, hs[i].text, hs[i].line)])

\* ContentExtractor._extract_plain_text, from line i on
RECURSIVE extract_plain_text(_, _)
extract_plain_text(original_lines, i) ==
    IF i > Len(original_lines) THEN <<>>
    ELSE (IF str_strip(original_lines[i]) # <<>>
          THEN <<Fragment(str_strip(original_lines[i]), i, 0)>>
          ELSE <<>>)
         \o extract_plain_text(original_lines, i + 1)

\* ContentExtractor._walk_xml_tree, and its loop over the children from
\* child i on
RECURSIVE walk_xml_tree(_, _)
RECURSIVE walk_children(_, _, _)
RECURSIVE walk_children_tail_first(_, _, _)

\* A loop that would take the tail of a child before the child.
walk_children_tail_first(children, i, original_lines) ==
    IF i > Len(children) THEN <<>>
    ELSE LET tail == str_strip(children[i].tail) IN
         (IF tail # <<>>
          THEN <<Fragment(tail, find_text_line(tail, original_lines), 0)>>
          ELSE <<>>)
         \o walk_xml_tree(children[i], original_lines)
         \o walk_children_tail_first(children, i + 1, original_lines)

walk_xml_tree(element, original_lines) ==
    LET text == str_strip(element.text) IN
    (IF text # <<>>
     THEN <<Fragment(text, find_text_line(text, original_lines),
                     IF is_heading_tag(element.tag)
                     THEN heading_level(element.tag) ELSE 0)>>
     ELSE <<>>)
    \o walk_children(element.children, 1, original_lines)

walk_children(children, i, original_lines) ==
    IF i > Len(children) THEN <<>>
    ELSE LET tail == str_strip(children[i].tail) IN
         walk_xml_tree(children[i], original_lines)
         \o (IF tail # <<>>
             THEN <<Fragment(tail, find_text_line(tail, original_lines), 0)>>
             ELSE <<>>)
         \o walk_children(children, i + 1, original_lines)

\* HTMLContentParser.handle_starttag: current_heading_level after the start
\* tag, where it was level before
handle_starttag(tag, level) ==
    IF is_heading_tag(tag) THEN heading_level(tag) ELSE level

\* An end tag that clears the heading state only where it closes the
\* heading that is open.
handle_endtag_of_open_heading(tag, level) ==
    IF is_heading_tag(tag) /\ heading_level(tag) = level THEN 0 ELSE level

\* HTMLContentParser.handle_endtag: current_heading_level after the end tag
handle_endtag(tag, level) ==
    IF is_heading_tag(tag) THEN 0 ELSE level

\* HTMLContentParser: feed(markup) calls handle_starttag, handle_endtag and
\* handle_data token by token, here from token i on; level is
\* current_heading_level (0 is None).
RECURSIVE html_feed(_, _, _, _)
html_feed(toks, i, original_lines, level) ==
    IF i > Len(toks) THEN <<>>
    ELSE LET t == toks[i] IN
         IF t.kind = "start"
         THEN html_feed(toks, i + 1, original_lines, handle_starttag(t.name, level))
         ELSE IF t.kind = "end"
         THEN html_feed(toks, i + 1, original_lines, handle_endtag(t.name, level))
         ELSE LET text == str_strip(t.text) IN
              (IF text # <<>>
               THEN <<Fragment(text, find_text_line(text, original_lines), level)>>
               ELSE <<>>)
              \o html_feed(toks, i + 1, original_lines, level)

\* parser.feed(markup) raises at a marked section; the fields of the
\* parser are then never copied (lines 386-388 are not reached).
html_raises(toks) == \E i \in 1..Len(toks) : toks[i].kind = "marked"

\* parser.feed over the tokens of the markup
parser_feed(toks, original_lines) ==
    IF html_raises(toks) THEN Raises
    ELSE Completes(html_feed(toks, 1, original_lines, 0))

\* ContentExtractor._extract_from_html
extract_from_html(markup, original_lines) ==
    parser_feed(tokenize(markup), original_lines)

\* re.match(r'^\s*<[^>]+>', s): a '<', one or more characters other than
\* '>', and a '>', after leading white space
match_leading_tag(s) ==
    LET k == CHOOSE i \in 1..(Len(s) + 1) :
                /\ \A j \in 1..(i - 1) : is_space(s[j])
                /\ i = Len(s) + 1 \/ ~is_space(s[i])
    IN /\ k <= Len(s)
       /\ s[k] = "<"
       /\ \E c \in (k + 2)..Len(s) : s[c] = ">"
       /\ k + 1 <= Len(s) /\ s[k + 1] # ">"

s_xml_decl == <<"<", "?", "x", "m", "l">>
s_root_open == <<"<", "r", "o", "o", "t", ">">>
s_root_close == <<"<", "/", "r", "o", "o", "t", ">">>

\* The condition of line 368: the markup gets a root element
needs_root(markup) ==
    /\ ~StartsWith(str_strip(markup), s_xml_decl)
    /\ ~match_leading_tag(str_strip(markup))

\* The markup that lines 376-380 parse
with_root(markup) ==
    IF needs_root(markup) THEN s_root_open \o markup \o s_root_close ELSE markup

\* Lines 375-380: the tree walk where ET.fromstring succeeds, the parser of
\* HTML where it raises ParseError
walk_or_fall_back(parsed, wrapped, original_lines) ==
    IF parsed.ok
    THEN Completes(walk_xml_tree(parsed.root, original_lines))
    ELSE extract_from_html(wrapped, original_lines)

\* ContentExtractor._extract_from_xml
extract_from_xml(markup, original_lines) ==
    IF ~needs_root(markup) /\ ~StartsWith(str_strip(markup), <<"<">>)
    THEN Completes(extract_plain_text(original_lines, 1))
    ELSE walk_or_fall_back(ET_fromstring(with_root(markup)), with_root(markup),
                           original_lines)

\* What extract_content leaves and returns when the strategy ended as
\* outcome says.
extraction(outcome) == [extracted(outcome.steps) EXCEPT !.raised = outcome.raised]

\* ContentExtractor.extract_content
extract_content(markup) == extraction(extract_from_xml(markup, str_split(markup)))

(***************************************************************************)
(* The rule engine: StreamlitStyleChecker                                  *)
(***************************************************************************)
\* A configuration value that is not set: .get() answers None or {}.
Absent == "absent"

\* The configuration mapping, by the paths the checks read:
\*   voice_preferred       style_guide.grammar_and_mechanics.voice_and_mood.preferred
\*   contractions_policy   style_guide.grammar_and_mechanics.contractions.policy
\*   oxford_comma_rule     style_guide.grammar_and_mechanics.punctuation.oxford_comma.rule
\*   capitalization_rule   style_guide.grammar_and_mechanics.capitalization.rule
\*   hyphens_rule          style_guide.grammar_and_mechanics.punctuation.hyphens.rule
\*   quotes_rule           style_guide.grammar_and_mechanics.punctuation.quotes.rule
\*   avoid_terms           style_guide.terminology.approved_phrasing.avoid_terms,
\*                         a list of terms
\*   deprecated_terms      style_guide.terminology.deprecated_terms, a mapping
\*                         from an old term to its current_term, as the
\*                         sequence of its <<old term, current term>> items
\* Config sets the first three and leaves the others unset.
Config(voice, contractions, oxford) ==
    [voice_preferred |-> voice, contractions_policy |-> contractions,
     oxford_comma_rule |-> oxford,
     capitalization_rule |-> Absent, hyphens_rule |-> Absent,
     quotes_rule |-> Absent, avoid_terms |-> <<>>, deprecated_terms |-> <<>>]
EmptyConfig == Config(Absent, Absent, Absent)

StyleIssue(line_number, severity, category, message, rule, suggestion, original_text, can_auto_fix) ==
    [line_number |-> line_number, severity |-> severity, category |-> category,
     message |-> message, rule |-> rule, suggestion |-> suggestion,
     original_text |-> original_text, can_auto_fix |-> can_auto_fix]

\* The position after the longest run of \w (of \s) that starts at i.
word_end(s, i) ==
    IF i > Len(s) THEN i
    ELSE Min({j \in i..(Len(s) + 1) : j = Len(s) + 1 \/ ~is_word(s[j])})
space_end(s, i) ==
    IF i > Len(s) THEN i
    ELSE Min({j \in i..(Len(s) + 1) : j = Len(s) + 1 \/ ~is_space(s[j])})

s_and == <<"a", "n", "d">>
\* (\w+),\s+(\w+)\s+and\s+(\w+) matched at position i: the positions that
\* delimit the three groups; ok is FALSE when it does not match there.
\* Each repetition is followed by a character outside its class, so the
\* greedy match is the only one.
oxford_match_at(s, i) ==
    LET a == word_end(s, i)
        b == space_end(s, a + 1)
        c == word_end(s, b)
        d == space_end(s, c)
        e == space_end(s, d + 3)
        f == word_end(s, e)
    IN [ok |-> /\ i <= Len(s) /\ a > i
               /\ a <= Len(s) /\ s[a] = ","
               /\ b > a + 1 /\ c > b /\ d > c
               /\ d + 2 <= Len(s) /\ SubSeq(s, d, d + 2) = s_and
               /\ e > d + 3 /\ f > e,
        start |-> i, a |-> a, b |-> b, c |-> c, e |-> e, stop |-> f]

\* re.findall(r'\b\w+,\s+\w+\s+and\s+\w+', line): the matched texts, found
\* left to right without overlap.
RECURSIVE oxford_findall(_, _)
oxford_findall(s, i) ==
    IF i > Len(s) THEN <<>>
    ELSE LET m == oxford_match_at(s, i)
             boundary == is_word(s[i]) /\ (i = 1 \/ ~is_word(s[i - 1]))
         IN IF boundary /\ m.ok
            THEN <<SubSeq(s, i, m.stop - 1)>> \o oxford_findall(s, m.stop)
            ELSE oxford_findall(s, i + 1)

s_comma_and == <<",", " ", "a", "n", "d">>
msg_oxford_1 == <<"M", "i", "s", "s", "i", "n", "g", " ", "O", "x", "f", "o", "r", "d", " ", "c", "o", "m", "m", "a", " ", "i", "n", ":", " ", "'">>
msg_quote == <<"'">>
sug_oxford == <<"A", "l", "w", "a", "y", "s", " ", "u", "s", "e", " ", "O", "x", "f", "o", "r", "d", " ", "c", "o", "m", "m", "a", " ", "i", "n", " ", "l", "i", "s", "t", "s", " ", "o", "f", " ", "t", "h", "r", "e", "e", " ", "o", "r", " ", "m", "o", "r", "e", " ", "i", "t", "e", "m", "s">>

\* _check_grammar_and_mechanics (lines 680-698): the Oxford comma
check_oxford_comma(line, line_num, cfg) ==
    IF cfg.oxford_comma_rule = "always_use"
    THEN (LET found == SelectSeq(oxford_findall(line, 1),
                         LAMBDA match : ~str_contains(match, s_comma_and))
          IN  [k \in 1..Len(found) |->
                 LET match == found[k] IN
                 StyleIssue(line_num, "info", "Grammar and Mechanics",
                           msg_oxford_1 \o match \o msg_quote,
                           "oxford_comma", sug_oxford, match, TRUE)])
    ELSE <<>>

\* compound_patterns of _check_grammar_and_mechanics and compounds of
\* _fix_compound_adjectives: the compound and its hyphenated form
compounds ==
    << <<<<"s", "i", "n", "g", "l", "e", " ", "n", "o", "d", "e">>, <<"s", "i", "n", "g", "l", "e", "-", "n", "o", "d", "e">>>>, <<<<"c", "o", "m", "m", "a", "n", "d", " ", "l", "i", "n", "e">>, <<"c", "o", "m", "m", "a", "n", "d", "-", "l", "i", "n", "e">>>>, <<<<"h", "e", "a", "l", "t", "h", " ", "c", "h", "e", "c", "k">>, <<"h", "e", "a", "l", "t", "h", "-", "c", "h", "e", "c", "k">>>>, <<<<"r", "e", "a", "l", " ", "t", "i", "m", "e">>, <<"r", "e", "a", "l", "-", "t", "i", "m", "e">>>>, <<<<"m", "u", "l", "t", "i", " ", "n", "o", "d", "e">>, <<"m", "u", "l", "t", "i", "-", "n", "o", "d", "e">>>> >>

\* re.search(r'\bcompound\b\s+\w+', line, re.IGNORECASE) at position i:
\* the compound in any letter case between word boundaries, white space
\* and a word; stop is the position after the match.  The pattern of the
\* fixer, r'\bcompound\s+(\w+)', matches the same text.
compound_match_at(line, compound, i) ==
    LET j == i + Len(compound) IN
    IF /\ j - 1 <= Len(line)
       /\ (i = 1 \/ ~is_word(line[i - 1]))
       /\ str_lower(SubSeq(line, i, j - 1)) = compound
       /\ space_end(line, j) > j
       /\ word_end(line, space_end(line, j)) > space_end(line, j)
    THEN [ok |-> TRUE, stop |-> word_end(line, space_end(line, j))]
    ELSE [ok |-> FALSE, stop |-> 0]
compound_starts(line, compound) ==
    {i \in 1..Len(line) : compound_match_at(line, compound, i).ok}
\* match.group() of the leftmost match
compound_match(line, compound) ==
    SubSeq(line, Min(compound_starts(line, compound)),
           compound_match_at(line, compound, Min(compound_starts(line, compound))).stop - 1)

msg_hyphens_1 == <<"C", "o", "m", "p", "o", "u", "n", "d", " ", "a", "d", "j", "e", "c", "t", "i", "v", "e", " ", "s", "h", "o", "u", "l", "d", " ", "b", "e", " ", "h", "y", "p", "h", "e", "n", "a", "t", "e", "d", ":", " ", "'">>
sug_hyphens_1 == <<"U", "s", "e", " ", "'">>
sug_hyphens_2 == <<"'", " ", "w", "h", "e", "n", " ", "i", "t", " ", "m", "o", "d", "i", "f", "i", "e", "s", " ", "a", " ", "n", "o", "u", "n">>

\* _check_grammar_and_mechanics (lines 700-724): compound adjectives
check_hyphens(line, line_num, cfg) ==
    IF cfg.hyphens_rule = "compound_adjectives"
    THEN (LET found == SelectSeq(compounds,
                         LAMBDA c : compound_starts(line, c[1]) # {})
          IN  [k \in 1..Len(found) |->
                 StyleIssue(line_num, "info", "Grammar and Mechanics",
                            msg_hyphens_1 \o compound_match(line, found[k][1]) \o msg_quote,
                            "hyphens",
                            sug_hyphens_1 \o found[k][2] \o sug_hyphens_2,
                            compound_match(line, found[k][1]), FALSE)])
    ELSE <<>>

\* re.findall(r"'([^']+)'", line) from position i on: the texts between a
\* quote and the next quote, where that is not empty, left to right
\* without overlap.
RECURSIVE quoted_findall(_, _)
quoted_findall(s, i) ==
    IF i > Len(s) THEN <<>>
    ELSE IF s[i] = "'" /\ (\E j \in (i + 2)..Len(s) : s[j] = "'") /\ s[i + 1] # "'"
    THEN <<SubSeq(s, i + 1, Min({j \in (i + 2)..Len(s) : s[j] = "'"}) - 1)>>
            \o quoted_findall(s, Min({j \in (i + 2)..Len(s) : s[j] = "'"}) + 1)
    ELSE quoted_findall(s, i + 1)

\* The indicators of UI text of the check (line 732) and of the fixer
\* (line 270).
ui_indicators ==
    {<<"c", "l", "i", "c", "k">>, <<"b", "u", "t", "t", "o", "n">>, <<"m", "e", "n", "u">>, <<"d", "i", "a", "l", "o", "g">>, <<".", "x", "m", "l">>, <<".", "l", "o", "g">>, <<"e", "r", "r", "o", "r">>, <<"a", "l", "e", "r", "t">>}
ui_keywords ==
    {<<"c", "l", "i", "c", "k">>, <<"b", "u", "t", "t", "o", "n">>, <<"m", "e", "n", "u">>, <<"d", "i", "a", "l", "o", "g">>, <<"e", "r", "r", "o", "r">>, <<"a", "l", "e", "r", "t">>, <<"w", "a", "r", "n", "i", "n", "g">>}
msg_quotes_1 == <<"U", "s", "e", " ", "d", "o", "u", "b", "l", "e", " ", "q", "u", "o", "t", "e", "s", " ", "f", "o", "r", " ", "U", "I", " ", "t", "e", "x", "t", ":", " ", "'">>
sug_quotes == <<"U", "s", "e", " ", "d", "o", "u", "b", "l", "e", " ", "q", "u", "o", "t", "e", "s", " ", "f", "o", "r", " ", "U", "I", " ", "t", "e", "x", "t", ",", " ", "a", "l", "e", "r", "t", "s", ",", " ", "f", "i", "l", "e", " ", "n", "a", "m", "e", "s", ",", " ", "o", "r", " ", "i", "n", "p", "u", "t", " ", "s", "t", "r", "i", "n", "g", "s">>

\* _check_grammar_and_mechanics (lines 726-743): quotes
check_quotes(line, line_num, cfg) ==
    IF cfg.quotes_rule = "double_quotes"
    THEN (LET found == SelectSeq(quoted_findall(line, 1),
                         LAMBDA match : \E indicator \in ui_indicators :
                                            str_contains(str_lower(match), indicator))
          IN  [k \in 1..Len(found) |->
                 StyleIssue(line_num, "info", "Grammar and Mechanics",
                            msg_quotes_1 \o found[k] \o msg_quote,
                            "quotes", sug_quotes,
                            msg_quote \o found[k] \o msg_quote, FALSE)])
    ELSE <<>>

\* _check_grammar_and_mechanics (lines 676-768).  The check of the list
\* structure (745-768) reads lists.parallel_structure, which no
\* configuration of the model sets.
check_grammar_and_mechanics(line, line_num, cfg) ==
    check_oxford_comma(line, line_num, cfg)
        \o check_hyphens(line, line_num, cfg)
        \o check_quotes(line, line_num, cfg)

passive_indicators ==
    <<<<"i", "s", " ", "s", "e", "t">>,
      <<"a", "r", "e", " ", "s", "e", "t">>,
      <<"w", "a", "s", " ", "s", "e", "t">>,
      <<"w", "e", "r", "e", " ", "s", "e", "t">>,
      <<"i", "s", " ", "m", "o", "n", "i", "t", "o", "r", "e", "d">>,
      <<"a", "r", "e", " ", "m", "o", "n", "i", "t", "o", "r", "e", "d">>,
      <<"i", "s", " ", "p", "e", "r", "f", "o", "r", "m", "e", "d">>,
      <<"a", "r", "e", " ", "p", "e", "r", "f", "o", "r", "m", "e", "d">>,
      <<"i", "s", " ", "c", "r", "e", "a", "t", "e", "d">>,
      <<"a", "r", "e", " ", "c", "r", "e", "a", "t", "e", "d">>>>
msg_passive_1 == <<"P", "a", "s", "s", "i", "v", "e", " ", "v", "o", "i", "c", "e", " ", "d", "e", "t", "e", "c", "t", "e", "d", ":", " ", "'">>
sug_passive == <<"U", "s", "e", " ", "a", "c", "t", "i", "v", "e", " ", "v", "o", "i", "c", "e", " ", "a", "n", "d", " ", "i", "m", "p", "e", "r", "a", "t", "i", "v", "e", " ", "m", "o", "o", "d", ".", " ", "E", "x", "a", "m", "p", "l", "e", ":", " ", "'", "R", "u", "n", " ", "t", "h", "e", " ", "N", "C", "C", " ", "h", "e", "a", "l", "t", "h", " ", "c", "h", "e", "c", "k", "'", " ", "i", "n", "s", "t", "e", "a", "d", " ", "o", "f", " ", "'", "T", "h", "e", " ", "N", "C", "C", " ", "h", "e", "a", "l", "t", "h", " ", "c", "h", "e", "c", "k", " ", "s", "h", "o", "u", "l", "d", " ", "b", "e", " ", "r", "u", "n", "'">>

avoid_contractions ==
    <<<<"s", "h", "o", "u", "l", "d", "'", "v", "e">>,
      <<"c", "o", "u", "l", "d", "'", "v", "e">>,
      <<"w", "o", "u", "l", "d", "'", "v", "e">>,
      <<"s", "h", "o", "u", "l", "d", "n", "'", "t">>,
      <<"c", "o", "u", "l", "d", "n", "'", "t">>,
      <<"w", "o", "u", "l", "d", "n", "'", "t">>>>
\* _expand_contraction: the expansions dictionary, as <<key, value>> pairs
expansions ==
    << <<<<"w", "o", "n", "'", "t">>, <<"w", "i", "l", "l", " ", "n", "o", "t">>>>,
       <<<<"d", "o", "n", "'", "t">>, <<"d", "o", " ", "n", "o", "t">>>>,
       <<<<"c", "a", "n", "'", "t">>, <<"c", "a", "n", "n", "o", "t">>>>,
       <<<<"s", "h", "o", "u", "l", "d", "n", "'", "t">>, <<"s", "h", "o", "u", "l", "d", " ", "n", "o", "t">>>>,
       <<<<"c", "o", "u", "l", "d", "n", "'", "t">>, <<"c", "o", "u", "l", "d", " ", "n", "o", "t">>>>,
       <<<<"w", "o", "u", "l", "d", "n", "'", "t">>, <<"w", "o", "u", "l", "d", " ", "n", "o", "t">>>>,
       <<<<"i", "s", "n", "'", "t">>, <<"i", "s", " ", "n", "o", "t">>>>,
       <<<<"a", "r", "e", "n", "'", "t">>, <<"a", "r", "e", " ", "n", "o", "t">>>>,
       <<<<"s", "h", "o", "u", "l", "d", "'", "v", "e">>, <<"s", "h", "o", "u", "l", "d", " ", "h", "a", "v", "e">>>>,
       <<<<"c", "o", "u", "l", "d", "'", "v", "e">>, <<"c", "o", "u", "l", "d", " ", "h", "a", "v", "e">>>>,
       <<<<"w", "o", "u", "l", "d", "'", "v", "e">>, <<"w", "o", "u", "l", "d", " ", "h", "a", "v", "e">>>> >>
\* d.get(key, default) of a dictionary kept as a sequence of pairs
dict_get(d, key, default) ==
    IF \E i \in 1..Len(d) : d[i][1] = key
    THEN d[CHOOSE i \in 1..Len(d) : d[i][1] = key][2]
    ELSE default
expand_contraction(contraction) ==
    dict_get(expansions, str_lower(contraction), contraction)
msg_contraction_1 == <<"C", "o", "n", "t", "r", "a", "c", "t", "i", "o", "n", " ", "'">>
msg_contraction_2 == <<"'", " ", "s", "h", "o", "u", "l", "d", " ", "b", "e", " ", "a", "v", "o", "i", "d", "e", "d">>
sug_contraction_1 == <<"U", "s", "e", " ", "f", "u", "l", "l", " ", "f", "o", "r", "m", ":", " ">>
sug_arrow == <<" ", "u2192", " ">>

third_person_refs ==
    <<<<"t", "h", "e", " ", "e", "n", "d", " ", "u", "s", "e", "r">>,
      <<"t", "h", "e", " ", "u", "s", "e", "r">>,
      <<"t", "h", "e", " ", "c", "u", "s", "t", "o", "m", "e", "r">>,
      <<"u", "s", "e", "r", "s", " ", "c", "a", "n">>,
      <<"c", "u", "s", "t", "o", "m", "e", "r", "s", " ", "c", "a", "n">>>>
msg_third_person_1 == <<"T", "h", "i", "r", "d", "-", "p", "e", "r", "s", "o", "n", " ", "r", "e", "f", "e", "r", "e", "n", "c", "e", ":", " ", "'">>
sug_third_person == <<"U", "s", "e", " ", "'", "y", "o", "u", "'", " ", "t", "o", " ", "a", "d", "d", "r", "e", "s", "s", " ", "t", "h", "e", " ", "r", "e", "a", "d", "e", "r", " ", "d", "i", "r", "e", "c", "t", "l", "y">>

s_node_down_dead == <<"t", "h", "e", " ", "n", "o", "d", "e", " ", "i", "s", " ", "d", "o", "w", "n", "/", "d", "e", "a", "d">>
s_data_corrupted == <<"t", "h", "e", " ", "d", "a", "t", "a", " ", "i", "s", " ", "c", "o", "r", "r", "u", "p", "t", "e", "d">>
sug_phrasing == <<"U", "s", "e", " ", "c", "a", "l", "m", ",", " ", "p", "r", "e", "c", "i", "s", "e", " ", "l", "a", "n", "g", "u", "a", "g", "e">>
sug_node == <<"U", "s", "e", ":", " ", "'", "T", "h", "e", " ", "n", "o", "d", "e", " ", "i", "s", " ", "u", "n", "r", "e", "s", "p", "o", "n", "s", "i", "v", "e", " ", "o", "r", " ", "u", "n", "a", "v", "a", "i", "l", "a", "b", "l", "e", ".", "'">>
sug_data == <<"U", "s", "e", ":", " ", "'", "T", "h", "e", "r", "e", " ", "i", "s", " ", "a", " ", "p", "o", "t", "e", "n", "t", "i", "a", "l", " ", "d", "a", "t", "a", " ", "i", "n", "t", "e", "g", "r", "i", "t", "y", " ", "i", "s", "s", "u", "e", ".", "'">>
msg_avoid_1 == <<"A", "v", "o", "i", "d", " ", "t", "e", "r", "m", ":", " ", "'">>

\* The suggestion for an avoided term (lines 633-637)
phrasing_suggestion(term) ==
    IF str_lower(term) = s_node_down_dead THEN sug_node
    ELSE IF str_lower(term) = s_data_corrupted THEN sug_data
    ELSE sug_phrasing

\* _check_writing_standards (lines 626-649): approved phrasing
check_approved_phrasing(line, line_num, cfg) ==
    (LET found == SelectSeq(cfg.avoid_terms,
                    LAMBDA term : str_contains(str_lower(line), str_lower(term)))
     IN  [k \in 1..Len(found) |->
            StyleIssue(line_num, "warning", "Terminology",
                       msg_avoid_1 \o found[k] \o msg_quote,
                       "approved_phrasing", phrasing_suggestion(found[k]),
                       found[k], TRUE)])

\* _check_writing_standards (lines 573-649): voice, contractions, direct
\* address, approved phrasing
check_writing_standards(line, line_num, cfg) ==
    LET lower == str_lower(line) IN
    (IF cfg.voice_preferred = "active_voice_imperative"
     THEN (LET found == SelectSeq(passive_indicators,
                          LAMBDA indicator : str_contains(lower, indicator))
           IN  [k \in 1..Len(found) |->
                  LET indicator == found[k] IN
                  StyleIssue(line_num, "warning", "Grammar and Mechanics",
                           msg_passive_1 \o indicator \o msg_quote,
                           "voice_and_mood", sug_passive, <<>>, FALSE)])
     ELSE <<>>)
    \o
    (IF cfg.contractions_policy = "use_sparingly"
     THEN (LET found == SelectSeq(avoid_contractions,
                          LAMBDA contraction : str_contains(lower, contraction))
           IN  [k \in 1..Len(found) |->
                  LET contraction == found[k] IN
                  StyleIssue(line_num, "warning", "Grammar and Mechanics",
                           msg_contraction_1 \o contraction \o msg_contraction_2,
                           "contractions",
                           sug_contraction_1 \o contraction \o sug_arrow
                               \o expand_contraction(contraction),
                           contraction, TRUE)])
     ELSE <<>>)
    \o
    (LET found == SelectSeq(third_person_refs,
                    LAMBDA ref : str_contains(lower, ref))
     IN  [k \in 1..Len(found) |->
            LET ref == found[k] IN
            StyleIssue(line_num, "info", "Grammar and Mechanics",
                       msg_third_person_1 \o ref \o msg_quote,
                       "direct_address", sug_third_person, <<>>, FALSE)])
    \o check_approved_phrasing(line, line_num, cfg)

negative_terms == <<<<"b", "u", "g">>,
      <<"c", "r", "a", "s", "h">>,
      <<"p", "a", "n", "i", "c">>,
      <<"s", "t", "u", "c", "k">>>>
negative_alternatives ==
    << <<<<"b", "u", "g">>, <<"i", "s", "s", "u", "e">>>>, <<<<"c", "r", "a", "s", "h">>, <<"f", "a", "i", "l", "u", "r", "e">>>>, <<<<"p", "a", "n", "i", "c">>, <<"h", "a", "l", "t">>>>, <<<<"s", "t", "u", "c", "k">>, <<"n", "o", " ", "p", "r", "o", "g", "r", "e", "s", "s">>>> >>
\* The list of non-inclusive terms without "whitelist".
non_inclusive_short == <<<<"m", "a", "s", "t", "e", "r", "/", "s", "l", "a", "v", "e">>,
      <<"b", "l", "a", "c", "k", "l", "i", "s", "t">>>>
non_inclusive == <<<<"m", "a", "s", "t", "e", "r", "/", "s", "l", "a", "v", "e">>,
      <<"b", "l", "a", "c", "k", "l", "i", "s", "t">>,
      <<"w", "h", "i", "t", "e", "l", "i", "s", "t">>>>
inclusive_alternatives ==
    << <<<<"m", "a", "s", "t", "e", "r", "/", "s", "l", "a", "v", "e">>, <<"p", "r", "i", "m", "a", "r", "y", "/", "s", "e", "c", "o", "n", "d", "a", "r", "y">>>>,
       <<<<"b", "l", "a", "c", "k", "l", "i", "s", "t">>, <<"d", "e", "n", "y", " ", "l", "i", "s", "t">>>>,
       <<<<"w", "h", "i", "t", "e", "l", "i", "s", "t">>, <<"a", "l", "l", "o", "w", " ", "l", "i", "s", "t">>>> >>
msg_negative_1 == <<"N", "e", "g", "a", "t", "i", "v", "e", " ", "t", "e", "r", "m", " ", "'">>
msg_found == <<"'", " ", "f", "o", "u", "n", "d">>
sug_use == <<"U", "s", "e", " ", "'">>
sug_instead_of == <<"'", " ", "i", "n", "s", "t", "e", "a", "d", " ", "o", "f", " ", "'">>
sug_instead == <<"'", " ", "i", "n", "s", "t", "e", "a", "d">>
sug_alternative_term == <<"a", "l", "t", "e", "r", "n", "a", "t", "i", "v", "e", " ", "t", "e", "r", "m">>
sug_inclusive_alternative == <<"i", "n", "c", "l", "u", "s", "i", "v", "e", " ", "a", "l", "t", "e", "r", "n", "a", "t", "i", "v", "e">>
msg_non_inclusive_1 == <<"N", "o", "n", "-", "i", "n", "c", "l", "u", "s", "i", "v", "e", " ", "t", "e", "r", "m", " ", "'">>

\* _check_content_quality (lines 780-813)
check_content_quality(line, line_num, cfg) ==
    LET lower == str_lower(line) IN
    (LET found == SelectSeq(negative_terms,
                    LAMBDA term : str_contains(lower, <<" ">> \o term)
                        \/ str_contains(lower, term \o <<" ">>))
     IN  [k \in 1..Len(found) |->
            LET term == found[k] IN
            StyleIssue(line_num, "warning", "Content Quality",
                       msg_negative_1 \o term \o msg_found,
                       "avoid_negative_terms",
                       sug_use \o dict_get(negative_alternatives, term, sug_alternative_term)
                           \o sug_instead_of \o term \o msg_quote,
                       <<>>, FALSE)])
    \o
    (LET found == SelectSeq(non_inclusive,
                    LAMBDA term : str_contains(lower, term))
     IN  [k \in 1..Len(found) |->
            LET term == found[k] IN
            StyleIssue(line_num, "error", "Content Quality",
                       msg_non_inclusive_1 \o term \o msg_found,
                       "inclusive_language",
                       sug_use \o dict_get(inclusive_alternatives, term, sug_inclusive_alternative)
                           \o sug_instead,
                       <<>>, FALSE)])

link_patterns == <<<<"c", "l", "i", "c", "k", " ", "h", "e", "r", "e">>,
      <<"r", "e", "a", "d", " ", "m", "o", "r", "e">>,
      <<"s", "e", "e", " ", "h", "e", "r", "e">>,
      <<"h", "e", "r", "e">>,
      <<"t", "h", "i", "s", " ", "l", "i", "n", "k">>>>
ability_terms == <<<<"s", "e", "e", " ", "t", "h", "e", " ", "i", "m", "a", "g", "e">>,
      <<"l", "o", "o", "k", " ", "a", "t">>,
      <<"a", "s", " ", "y", "o", "u", " ", "c", "a", "n", " ", "s", "e", "e">>,
      <<"o", "b", "v", "i", "o", "u", "s", "l", "y">>,
      <<"c", "l", "e", "a", "r", "l", "y">>>>
msg_link_1 == <<"N", "o", "n", "-", "d", "e", "s", "c", "r", "i", "p", "t", "i", "v", "e", " ", "l", "i", "n", "k", " ", "t", "e", "x", "t", ":", " ", "'">>
sug_link == <<"U", "s", "e", " ", "d", "e", "s", "c", "r", "i", "p", "t", "i", "v", "e", " ", "l", "i", "n", "k", " ", "t", "e", "x", "t", " ", "t", "h", "a", "t", " ", "e", "x", "p", "l", "a", "i", "n", "s", " ", "w", "h", "a", "t", " ", "t", "h", "e", " ", "l", "i", "n", "k", " ", "l", "e", "a", "d", "s", " ", "t", "o">>
msg_ability_1 == <<"C", "o", "n", "s", "i", "d", "e", "r", " ", "a", "b", "i", "l", "i", "t", "y", "-", "n", "e", "u", "t", "r", "a", "l", " ", "a", "l", "t", "e", "r", "n", "a", "t", "i", "v", "e", " ", "t", "o", " ", "'">>
sug_ability == <<"U", "s", "e", " ", "i", "n", "c", "l", "u", "s", "i", "v", "e", " ", "l", "a", "n", "g", "u", "a", "g", "e", " ", "t", "h", "a", "t", " ", "d", "o", "e", "s", "n", "'", "t", " ", "a", "s", "s", "u", "m", "e", " ", "s", "p", "e", "c", "i", "f", "i", "c", " ", "a", "b", "i", "l", "i", "t", "i", "e", "s", ":", " ", "'", "t", "h", "e", " ", "i", "m", "a", "g", "e", " ", "s", "h", "o", "w", "s", "'", " ", "i", "n", "s", "t", "e", "a", "d", " ", "o", "f", " ", "'", "s", "e", "e", " ", "t", "h", "e", " ", "i", "m", "a", "g", "e", "'">>
s_a_tag == <<"<", "a">>
s_href == <<"h", "r", "e", "f">>

\* _check_content_accessibility (lines 1059-1088), for the fragment at
\* position line_num of the fragment list; that position is the line number
\* of the issue
check_content_accessibility_line(line, line_num) ==
    LET lower == str_lower(line) IN
    (LET found == SelectSeq(link_patterns,
                    LAMBDA pattern : str_contains(lower, pattern)
                           /\ (str_contains(line, s_a_tag) \/ str_contains(line, s_href)))
     IN  [k \in 1..Len(found) |->
            LET pattern == found[k] IN
            StyleIssue(line_num, "warning", "Content Quality",
                       msg_link_1 \o pattern \o msg_quote,
                       "descriptive_links", sug_link, <<>>, FALSE)])
    \o
    (LET found == SelectSeq(ability_terms,
                    LAMBDA term : str_contains(lower, term))
     IN  [k \in 1..Len(found) |->
            LET term == found[k] IN
            StyleIssue(line_num, "info", "Content Quality",
                       msg_ability_1 \o term \o msg_quote,
                       "ability_neutral", sug_ability, <<>>, FALSE)])

RECURSIVE check_content_accessibility(_, _)
check_content_accessibility(lines, i) ==
    IF i > Len(lines) THEN <<>>
    ELSE check_content_accessibility_line(lines[i], i)
            \o check_content_accessibility(lines, i + 1)

\* str(n) of a natural number
RECURSIVE str_int(_)
str_int(n) ==
    IF n < 10 THEN <<DigitChars[n + 1]>>
    ELSE str_int(n \div 10) \o <<DigitChars[(n % 10) + 1]>>

msg_hierarchy_1 == <<"H", "e", "a", "d", "i", "n", "g", " ", "l", "e", "v", "e", "l", " ">>
msg_hierarchy_2 == <<" ", "s", "k", "i", "p", "s", " ", "l", "e", "v", "e", "l", "s", " ", "(", "p", "r", "e", "v", "i", "o", "u", "s", " ", "w", "a", "s", " ">>
msg_hierarchy_3 == <<")">>
sug_hierarchy == <<"U", "s", "e", " ", "s", "e", "q", "u", "e", "n", "t", "i", "a", "l", " ", "h", "e", "a", "d", "i", "n", "g", " ", "l", "e", "v", "e", "l", "s", " ", "(", "h", "1", ",", " ", "h", "2", ",", " ", "h", "3", ")", " ", "w", "i", "t", "h", "o", "u", "t", " ", "s", "k", "i", "p", "p", "i", "n", "g">>
s_table_of_contents == <<"t", "a", "b", "l", "e", " ", "o", "f", " ", "c", "o", "n", "t", "e", "n", "t", "s">>
msg_toc == <<"L", "o", "n", "g", " ", "d", "o", "c", "u", "m", "e", "n", "t", " ", "w", "i", "t", "h", "o", "u", "t", " ", "T", "a", "b", "l", "e", " ", "o", "f", " ", "C", "o", "n", "t", "e", "n", "t", "s">>
sug_toc == <<"C", "o", "n", "s", "i", "d", "e", "r", " ", "a", "d", "d", "i", "n", "g", " ", "a", " ", "T", "a", "b", "l", "e", " ", "o", "f", " ", "C", "o", "n", "t", "e", "n", "t", "s", " ", "f", "o", "r", " ", "d", "o", "c", "u", "m", "e", "n", "t", "s", " ", "w", "i", "t", "h", " ", "m", "u", "l", "t", "i", "p", "l", "e", " ", "s", "e", "c", "t", "i", "o", "n", "s">>

\* The level the hierarchy loop starts from (line 532).
FirstPrevLevel == 0

\* A comparison that also fires on the next level down.
level_increases(level, prev_level) == level > prev_level
\* level > prev_level + 1 (line 534)
level_skips(level, prev_level) == level > prev_level + 1

\* The loop of lines 533-544 from heading i on
RECURSIVE heading_hierarchy(_, _, _)
heading_hierarchy(hs, i, prev_level) ==
    IF i > Len(hs) THEN <<>>
    ELSE (IF level_skips(hs[i].level, prev_level)
          THEN <<StyleIssue(hs[i].line, "warning", "Document Structure",
                            msg_hierarchy_1 \o str_int(hs[i].level)
                                \o msg_hierarchy_2 \o str_int(prev_level)
                                \o msg_hierarchy_3,
                            "heading_hierarchy", sug_hierarchy, hs[i].text, FALSE)>>
          ELSE <<>>)
         \o heading_hierarchy(hs, i + 1, hs[i].level)

\* _check_document_content_structure (lines 513-544)
check_document_content_structure(text_lines, hs) ==
    (IF ~str_contains(str_lower(str_join(text_lines)), s_table_of_contents)
          /\ Len(text_lines) > 20
     THEN <<StyleIssue(1, "info", "Document Structure", msg_toc,
                       "table_of_contents", sug_toc, <<>>, FALSE)>>
     ELSE <<>>)
    \o
    (IF Len(hs) > 1 THEN heading_hierarchy(hs, 1, FirstPrevLevel) ELSE <<>>)

\* The current term that stands for "remove, no replacement".
s_remove == <<"R", "e", "m", "o", "v", "e", ";", " ", "n", "o", " ", "l", "o", "n", "g", "e", "r", " ", "u", "s", "e", "f", "u", "l">>
msg_deprecated_1 == <<"D", "e", "p", "r", "e", "c", "a", "t", "e", "d", " ", "t", "e", "r", "m", " ", "'">>
msg_deprecated_found == <<"'", " ", "f", "o", "u", "n", "d">>
msg_deprecated_removed == <<"'", " ", "s", "h", "o", "u", "l", "d", " ", "b", "e", " ", "r", "e", "m", "o", "v", "e", "d">>
sug_deprecated_use == <<"U", "s", "e", " ", "'">>
sug_deprecated_instead == <<"'", " ", "i", "n", "s", "t", "e", "a", "d", " ", "o", "f", " ", "'">>
sug_deprecated_remove == <<"R", "e", "m", "o", "v", "e", " ", "'">>
sug_deprecated_useless == <<"'", " ", "-", " ", "n", "o", " ", "l", "o", "n", "g", "e", "r", " ", "u", "s", "e", "f", "u", "l">>

\* The issue of lines 950-968 for one item of deprecated_terms
deprecated_issue(old_term, current_term, line_num) ==
    IF current_term # s_remove
    THEN StyleIssue(line_num, "warning", "Terminology",
                    msg_deprecated_1 \o old_term \o msg_deprecated_found,
                    "deprecated_terms",
                    sug_deprecated_use \o current_term \o sug_deprecated_instead
                        \o old_term \o msg_quote,
                    old_term, TRUE)
    ELSE StyleIssue(line_num, "warning", "Terminology",
                    msg_deprecated_1 \o old_term \o msg_deprecated_removed,
                    "deprecated_terms",
                    sug_deprecated_remove \o old_term \o sug_deprecated_useless,
                    <<>>, FALSE)

\* _check_technical_content (lines 884-969): deprecated terms.  The checks
\* of product names, abbreviations and commands read configuration that no
\* configuration of the model sets (the first of them raises no issue).
check_technical_content(line, line_num, cfg) ==
    (LET found == SelectSeq(cfg.deprecated_terms,
                    LAMBDA item : str_contains(str_lower(line), str_lower(item[1])))
     IN  [k \in 1..Len(found) |->
            deprecated_issue(found[k][1], found[k][2], line_num)])

\* known_acronyms of _check_headings
known_acronyms ==
    {<<"A", "O", "S">>, <<"A", "H", "V">>, <<"C", "V", "M">>, <<"N", "C", "C">>, <<"D", "S", "F">>, <<"P", "C">>, <<"P", "E">>, <<"N", "C", "2">>, <<"A", "P", "I">>, <<"U", "I">>, <<"C", "L", "I">>, <<"S", "S", "H">>, <<"I", "P">>, <<"V", "M">>, <<"C", "P", "U">>, <<"R", "A", "M">>, <<"S", "S", "D">>, <<"H", "D", "D">>}
msg_capitalization_1 == <<"H", "e", "a", "d", "i", "n", "g", " ", "s", "h", "o", "u", "l", "d", " ", "u", "s", "e", " ", "s", "e", "n", "t", "e", "n", "c", "e", " ", "c", "a", "s", "e", ":", " ", "'">>
sug_capitalization == <<"U", "s", "e", " ", "s", "e", "n", "t", "e", "n", "c", "e", " ", "c", "a", "s", "e", " ", "-", " ", "c", "a", "p", "i", "t", "a", "l", "i", "z", "e", " ", "o", "n", "l", "y", " ", "t", "h", "e", " ", "f", "i", "r", "s", "t", " ", "w", "o", "r", "d", " ", "a", "n", "d", " ", "p", "r", "o", "p", "e", "r", " ", "n", "o", "u", "n", "s", "/", "a", "c", "r", "o", "n", "y", "m", "s">>

\* The words after the first that count as capitalized (line 663).
capitalized_count(words) ==
    Cardinality({k \in 2..Len(words) :
                    /\ char_isupper(words[k][1])
                    /\ str_upper(words[k]) \notin known_acronyms
                    /\ ~str_istitle(words[k])})

\* _check_headings (lines 651-674)
check_headings(hs, cfg) ==
    IF cfg.capitalization_rule = "sentence_case"
    THEN (LET found == SelectSeq(hs, LAMBDA h :
                          Len(str_words(h.text)) > 1
                          /\ capitalized_count(str_words(h.text)) > 0)
          IN  [k \in 1..Len(found) |->
                 StyleIssue(found[k].line, "warning", "Grammar and Mechanics",
                            msg_capitalization_1 \o found[k].text \o msg_quote,
                            "capitalization", sug_capitalization,
                            found[k].text, TRUE)])
    ELSE <<>>

\* The loop of _check_extracted_content (lines 549-562) from fragment i on.
\* Fragments are never blank, and line_mapping has an entry for each.  The
\* per-line checks that add nothing to a fragment of the model are left out:
\* _check_formatting_standards reads a configuration list that no
\* configuration of the model sets, and the address patterns of
\* _check_training_standards need a dotted address or '@' in the fragment.
RECURSIVE check_lines(_, _, _, _)
check_lines(text_lines, lm, cfg, i) ==
    IF i > Len(text_lines) THEN <<>>
    ELSE LET line == text_lines[i]
             original_line_num == lm[i]
         IN (IF str_strip(line) = <<>> THEN <<>>
             ELSE check_grammar_and_mechanics(line, original_line_num, cfg)
                    \o check_writing_standards(line, original_line_num, cfg)
                    \o check_content_quality(line, original_line_num, cfg)
                    \o check_technical_content(line, original_line_num, cfg))
            \o check_lines(text_lines, lm, cfg, i + 1)

\* A pass that runs the accessibility checks before the fragment loop.
check_accessibility_first(text_lines, lm, hs, cfg) ==
    check_content_accessibility(text_lines, 1)
        \o check_lines(text_lines, lm, cfg, 1)
        \o check_headings(hs, cfg)

\* _check_extracted_content (lines 546-571).  The required sections of
\* _check_document_patterns read configuration that no configuration of the
\* model sets; its other patterns need words no fragment holds.
check_extracted_content(text_lines, lm, hs, cfg) ==
    check_lines(text_lines, lm, cfg, 1)
        \o check_headings(hs, cfg)
        \o check_content_accessibility(text_lines, 1)

\* A run that appends to the issues of the run before it.
keep_issues(old) == old
\* self.issues = [] (line 488): a run starts from no issues, whatever the
\* runs before it left.
reset_issues(old) == <<>>

\* check_content once the extractor has returned ex (lines 497-511).  The
\* thresholds of _check_multi_line_patterns are beyond a document of the
\* model.
check_extracted(ex, cfg) ==
    IF ex.raised
    THEN [issues |-> <<>>, ran |-> FALSE, ex |-> NothingExtracted, raised |-> TRUE]
    ELSE [issues |-> check_extracted_content(ex.text_content, ex.line_mapping, ex.headings, cfg)
                       \o check_document_content_structure(ex.text_content, ex.headings),
          ran |-> TRUE, ex |-> ex, raised |-> FALSE]

\* check_content (lines 486-511): the issues, and what the extractor found
\* (ran is FALSE when the content is blank and nothing is extracted).
check_content(c, cfg) ==
    IF str_strip(c) = <<>>
    THEN [issues |-> <<>>, ran |-> FALSE, ex |-> NothingExtracted, raised |-> FALSE]
    ELSE check_extracted(extract_content(c), cfg)

(***************************************************************************)
(* StyleFixer: the Edit proposed for an issue                              *)
(***************************************************************************)
\* An AutoFix (its description, a display string, is left out).
AutoFix(issue_id, original_text, fixed_text, line_number, confidence) ==
    [issue_id |-> issue_id, original_text |-> original_text,
     fixed_text |-> fixed_text, line_number |-> line_number,
     confidence |-> confidence]

\* contractions_map of _fix_contractions, in its insertion order
contractions_map ==
    << <<<<"s", "h", "o", "u", "l", "d", "'", "v", "e">>, <<"s", "h", "o", "u", "l", "d", " ", "h", "a", "v", "e">>>>,
       <<<<"c", "o", "u", "l", "d", "'", "v", "e">>, <<"c", "o", "u", "l", "d", " ", "h", "a", "v", "e">>>>,
       <<<<"w", "o", "u", "l", "d", "'", "v", "e">>, <<"w", "o", "u", "l", "d", " ", "h", "a", "v", "e">>>>,
       <<<<"s", "h", "o", "u", "l", "d", "n", "'", "t">>, <<"s", "h", "o", "u", "l", "d", " ", "n", "o", "t">>>>,
       <<<<"c", "o", "u", "l", "d", "n", "'", "t">>, <<"c", "o", "u", "l", "d", " ", "n", "o", "t">>>>,
       <<<<"w", "o", "u", "l", "d", "n", "'", "t">>, <<"w", "o", "u", "l", "d", " ", "n", "o", "t">>>> >>

\* _fix_contractions from entry k of contractions_map on: the Edit for the
\* first entry that occurs in the line, whatever the issue names.  A
\* strategy answers <<>> for None and <<fix>> for a fix.
RECURSIVE fix_contractions(_, _, _, _)
fix_contractions(issue, line, issue_id, k) ==
    IF k > Len(contractions_map) THEN <<>>
    ELSE LET contraction == contractions_map[k][1]
             expansion == contractions_map[k][2]
             start == str_find(str_lower(line), str_lower(contraction))
         IN IF start # 0
            THEN LET original == SubSeq(line, start, start + Len(contraction) - 1)
                     fixed == IF char_isupper(original[1])
                              THEN str_capitalize(expansion) ELSE expansion
                 IN <<AutoFix(str_int(issue_id), original, fixed,
                              issue.line_number, "high")>>
            ELSE fix_contractions(issue, line, issue_id, k + 1)

\* _fix_oxford_comma: re.search finds the leftmost match in the line
fix_oxford_comma(issue, line, issue_id) ==
    LET starts == {i \in 1..Len(line) : oxford_match_at(line, i).ok} IN
    IF starts # {}
    THEN LET m == oxford_match_at(line, Min(starts))
             original == SubSeq(line, m.start, m.stop - 1)
             fixed == SubSeq(line, m.start, m.a - 1) \o <<",", " ">>
                        \o SubSeq(line, m.b, m.c - 1) \o s_comma_and \o <<" ">>
                        \o SubSeq(line, m.e, m.stop - 1)
         IN <<AutoFix(str_int(issue_id), original, fixed, issue.line_number, "high")>>
    ELSE <<>>

\* acronyms of _convert_to_sentence_case
acronyms ==
    {<<"A", "O", "S">>, <<"A", "H", "V">>, <<"C", "V", "M">>, <<"N", "C", "C">>, <<"D", "S", "F">>, <<"P", "C">>, <<"P", "E">>, <<"N", "C", "2">>, <<"A", "P", "I">>, <<"U", "I">>, <<"C", "L", "I">>, <<"S", "S", "H">>, <<"I", "P">>, <<"V", "M">>, <<"C", "P", "U">>, <<"R", "A", "M">>, <<"S", "S", "D">>, <<"H", "D", "D">>, <<"K", "B">>}

\* One round of the loop of _convert_to_sentence_case: word i (0-based) of
\* the text
sentence_case_word(word, i) ==
    IF i = 0 THEN str_capitalize(word)
    ELSE IF str_upper(word) \in acronyms THEN str_upper(word)
    ELSE str_lower(word)

\* StyleFixer._convert_to_sentence_case
convert_to_sentence_case(text) ==
    IF str_words(text) = <<>> THEN text
    ELSE str_join_words([k \in 1..Len(str_words(text)) |->
                            sentence_case_word(str_words(text)[k], k - 1)])

\* re.search(r'<h[1-6][^>]*>([^<]+)</h[1-6]>', line) at position i: the
\* start tag ends at the first '>', the heading text (group 1) runs to the
\* next '<' and is not empty, and an end tag of a heading follows; gt and
\* lt are the positions of the two.
s_h_open == <<"<", "h">>
s_h_close == <<"<", "/", "h">>
HeadingDigits == {"1", "2", "3", "4", "5", "6"}
heading_match_at(line, i) ==
    IF i + 2 <= Len(line) /\ SubSeq(line, i, i + 1) = s_h_open
          /\ line[i + 2] \in HeadingDigits
          /\ \E g \in (i + 3)..Len(line) : line[g] = ">"
    THEN LET gt == Min({g \in (i + 3)..Len(line) : line[g] = ">"})
             lts == {l \in (gt + 1)..Len(line) : line[l] = "<"}
         IN IF lts # {} /\ Min(lts) > gt + 1 /\ Min(lts) + 4 <= Len(line)
                  /\ SubSeq(line, Min(lts), Min(lts) + 2) = s_h_close
                  /\ line[Min(lts) + 3] \in HeadingDigits
                  /\ line[Min(lts) + 4] = ">"
            THEN [ok |-> TRUE, gt |-> gt, lt |-> Min(lts)]
            ELSE [ok |-> FALSE, gt |-> 0, lt |-> 0]
    ELSE [ok |-> FALSE, gt |-> 0, lt |-> 0]

\* The Edit of _fix_heading_capitalization for the heading text original
heading_fix(original, issue, issue_id) ==
    IF original # convert_to_sentence_case(original)
    THEN <<AutoFix(str_int(issue_id), original, convert_to_sentence_case(original),
                   issue.line_number, "high")>>
    ELSE <<>>

\* _fix_heading_capitalization: re.search finds the leftmost heading of
\* the line
fix_heading_capitalization(issue, line, issue_id) ==
    LET starts == {i \in 1..Len(line) : heading_match_at(line, i).ok} IN
    IF starts # {}
    THEN heading_fix(SubSeq(line, heading_match_at(line, Min(starts)).gt + 1,
                            heading_match_at(line, Min(starts)).lt - 1),
                     issue, issue_id)
    ELSE <<>>

s_heading == <<"h", "e", "a", "d", "i", "n", "g">>

\* The Edit of lines 184-202 and 220-237 for a term found in the line at
\* position start, of the length of the term: the text as the line has it,
\* and the replacement, capitalized where the text begins with a capital.
case_preserving_fix(line, start, length, replacement, issue, issue_id) ==
    <<AutoFix(str_int(issue_id), SubSeq(line, start, start + length - 1),
              IF char_isupper(line[start])
              THEN str_capitalize(replacement) ELSE replacement,
              issue.line_number, "high")>>

\* _fix_deprecated_terms from item k of deprecated_terms on: the Edit for
\* the first item that occurs in the line and is not to be removed,
\* whatever the issue names.
RECURSIVE fix_deprecated_terms(_, _, _, _, _)
fix_deprecated_terms(issue, line, issue_id, deprecated_terms, k) ==
    IF k > Len(deprecated_terms) THEN <<>>
    ELSE IF str_contains(str_lower(line), str_lower(deprecated_terms[k][1]))
            /\ deprecated_terms[k][2] # s_remove
    THEN case_preserving_fix(line,
                             str_find(str_lower(line), str_lower(deprecated_terms[k][1])),
                             Len(deprecated_terms[k][1]), deprecated_terms[k][2],
                             issue, issue_id)
    ELSE fix_deprecated_terms(issue, line, issue_id, deprecated_terms, k + 1)

\* phrasing_fixes of _fix_approved_phrasing, in its insertion order
phrasing_fixes ==
    << <<<<"t", "h", "e", " ", "n", "o", "d", "e", " ", "i", "s", " ", "d", "o", "w", "n">>, <<"t", "h", "e", " ", "n", "o", "d", "e", " ", "i", "s", " ", "u", "n", "r", "e", "s", "p", "o", "n", "s", "i", "v", "e", " ", "o", "r", " ", "u", "n", "a", "v", "a", "i", "l", "a", "b", "l", "e">>>>,
       <<<<"t", "h", "e", " ", "n", "o", "d", "e", " ", "i", "s", " ", "d", "e", "a", "d">>, <<"t", "h", "e", " ", "n", "o", "d", "e", " ", "i", "s", " ", "u", "n", "r", "e", "s", "p", "o", "n", "s", "i", "v", "e", " ", "o", "r", " ", "u", "n", "a", "v", "a", "i", "l", "a", "b", "l", "e">>>>,
       <<<<"t", "h", "e", " ", "d", "a", "t", "a", " ", "i", "s", " ", "c", "o", "r", "r", "u", "p", "t", "e", "d">>, <<"t", "h", "e", "r", "e", " ", "i", "s", " ", "a", " ", "p", "o", "t", "e", "n", "t", "i", "a", "l", " ", "d", "a", "t", "a", " ", "i", "n", "t", "e", "g", "r", "i", "t", "y", " ", "i", "s", "s", "u", "e">>>>,
       <<<<"k", "i", "l", "l", " ", "t", "h", "e", " ", "s", "e", "r", "v", "i", "c", "e">>, <<"s", "t", "o", "p", " ", "t", "h", "e", " ", "s", "e", "r", "v", "i", "c", "e">>>>,
       <<<<"k", "i", "l", "l", " ", "t", "h", "e", " ", "p", "r", "o", "c", "e", "s", "s">>, <<"s", "t", "o", "p", " ", "t", "h", "e", " ", "p", "r", "o", "c", "e", "s", "s">>>>,
       <<<<"t", "h", "e", " ", "s", "e", "r", "v", "i", "c", "e", " ", "c", "r", "a", "s", "h", "e", "d">>, <<"t", "h", "e", " ", "s", "e", "r", "v", "i", "c", "e", " ", "s", "t", "o", "p", "p", "e", "d", " ", "u", "n", "e", "x", "p", "e", "c", "t", "e", "d", "l", "y">>>>,
       <<<<"t", "h", "e", " ", "d", "r", "i", "v", "e", " ", "i", "s", " ", "b", "a", "d">>, <<"t", "h", "e", " ", "d", "r", "i", "v", "e", " ", "h", "a", "s", " ", "a", " ", "f", "a", "u", "l", "t">>>>,
       <<<<"t", "h", "e", " ", "d", "r", "i", "v", "e", " ", "i", "s", " ", "b", "r", "o", "k", "e", "n">>, <<"t", "h", "e", " ", "d", "r", "i", "v", "e", " ", "h", "a", "s", " ", "a", " ", "f", "a", "u", "l", "t">>>> >>

\* _fix_approved_phrasing from entry k of phrasing_fixes on
RECURSIVE fix_approved_phrasing(_, _, _, _)
fix_approved_phrasing(issue, line, issue_id, k) ==
    IF k > Len(phrasing_fixes) THEN <<>>
    ELSE IF str_contains(str_lower(line), phrasing_fixes[k][1])
    THEN case_preserving_fix(line, str_find(str_lower(line), phrasing_fixes[k][1]),
                             Len(phrasing_fixes[k][1]), phrasing_fixes[k][2],
                             issue, issue_id)
    ELSE fix_approved_phrasing(issue, line, issue_id, k + 1)

\* passive_patterns of _fix_passive_voice, in its insertion order
passive_patterns ==
    << <<<<"i", "s", " ", "s", "e", "t", " ", "b", "y">>, <<"s", "e", "t", "s">>>>,
       <<<<"a", "r", "e", " ", "s", "e", "t", " ", "b", "y">>, <<"s", "e", "t">>>>,
       <<<<"i", "s", " ", "r", "e", "s", "t", "a", "r", "t", "e", "d", " ", "b", "y">>, <<"r", "e", "s", "t", "a", "r", "t", "s">>>>,
       <<<<"a", "r", "e", " ", "r", "e", "s", "t", "a", "r", "t", "e", "d", " ", "b", "y">>, <<"r", "e", "s", "t", "a", "r", "t">>>> >>

\* _fix_passive_voice from entry k of passive_patterns on: the original
\* text of the Edit is the pattern, not the text of the line.
RECURSIVE fix_passive_voice(_, _, _, _)
fix_passive_voice(issue, line, issue_id, k) ==
    IF k > Len(passive_patterns) THEN <<>>
    ELSE IF str_contains(str_lower(line), passive_patterns[k][1])
    THEN <<AutoFix(str_int(issue_id), passive_patterns[k][1], passive_patterns[k][2],
                   issue.line_number, "low")>>
    ELSE fix_passive_voice(issue, line, issue_id, k + 1)

\* _fix_compound_adjectives from entry k of compounds on: the original
\* text of the Edit is the compound of the table, not the text of the line.
RECURSIVE fix_compound_adjectives(_, _, _, _)
fix_compound_adjectives(issue, line, issue_id, k) ==
    IF k > Len(compounds) THEN <<>>
    ELSE IF compound_starts(line, compounds[k][1]) # {}
    THEN <<AutoFix(str_int(issue_id), compounds[k][1], compounds[k][2],
                   issue.line_number, "medium")>>
    ELSE fix_compound_adjectives(issue, line, issue_id, k + 1)

\* The pattern of _fix_quotes (line 270) at position i: a quote, text
\* without a quote that holds a keyword in any letter case, and the next
\* quote, at position stop.
quoted_ui_at(line, i) ==
    IF line[i] = "'" /\ (\E j \in (i + 1)..Len(line) : line[j] = "'")
    THEN LET stop == Min({j \in (i + 1)..Len(line) : line[j] = "'"}) IN
         [ok |-> \E keyword \in ui_keywords :
                    str_contains(str_lower(SubSeq(line, i + 1, stop - 1)), keyword),
          stop |-> stop]
    ELSE [ok |-> FALSE, stop |-> 0]

\* The Edit of _fix_quotes for the quoted text from start to stop
quotes_fix(line, start, stop, issue, issue_id) ==
    <<AutoFix(str_int(issue_id), SubSeq(line, start, stop),
              <<"\"">> \o SubSeq(line, start + 1, stop - 1) \o <<"\"">>,
              issue.line_number, "medium")>>

\* _fix_quotes: re.search finds the leftmost match in the line
fix_quotes(issue, line, issue_id) ==
    LET starts == {i \in 1..Len(line) : quoted_ui_at(line, i).ok} IN
    IF starts # {}
    THEN quotes_fix(line, Min(starts), quoted_ui_at(line, Min(starts)).stop,
                    issue, issue_id)
    ELSE <<>>

\* The dispatch of _create_fix_for_issue on the rule of the issue (lines
\* 85-103); cfg is the configuration of the fixer.
fix_for_rule(issue, line, issue_id, cfg) ==
    IF issue.rule = "capitalization"
          /\ str_contains(str_lower(issue.message), s_heading)
    THEN fix_heading_capitalization(issue, line, issue_id)
    ELSE IF issue.rule = "contractions"
    THEN fix_contractions(issue, line, issue_id, 1)
    ELSE IF issue.rule = "oxford_comma"
    THEN fix_oxford_comma(issue, line, issue_id)
    ELSE IF issue.rule = "deprecated_terms"
    THEN fix_deprecated_terms(issue, line, issue_id, cfg.deprecated_terms, 1)
    ELSE IF issue.rule = "voice_and_mood"
    THEN fix_passive_voice(issue, line, issue_id, 1)
    ELSE IF issue.rule = "approved_phrasing"
    THEN fix_approved_phrasing(issue, line, issue_id, 1)
    ELSE IF issue.rule = "hyphens"
    THEN fix_compound_adjectives(issue, line, issue_id, 1)
    ELSE IF issue.rule = "quotes"
    THEN fix_quotes(issue, line, issue_id)
    ELSE <<>>

\* _create_fix_for_issue.  lines[issue.line_number - 1] follows Python's
\* list indexing; every issue of the model has a line number of 1 or more.
create_fix_for_issue(issue, lines, issue_id, cfg) ==
    IF issue.line_number > Len(lines) THEN <<>>
    ELSE fix_for_rule(issue, lines[issue.line_number], issue_id, cfg)

\* The loop of generate_fixes from issue i (0-based, as enumerate counts) on
RECURSIVE generate_fixes_from(_, _, _, _)
generate_fixes_from(lines, iss, i, cfg) ==
    IF i >= Len(iss) THEN <<>>
    ELSE (IF iss[i + 1].can_auto_fix
          THEN create_fix_for_issue(iss[i + 1], lines, i, cfg)
          ELSE <<>>)
         \o generate_fixes_from(lines, iss, i + 1, cfg)

\* A loop that counts the auto-fixable issues only.
generate_fixes_of_fixable(c, iss, cfg) ==
    generate_fixes_from(str_split(c), SelectSeq(iss, LAMBDA issue : issue.can_auto_fix),
                        0, cfg)

\* StyleFixer.generate_fixes of a fixer whose configuration is cfg
generate_fixes(c, iss, cfg) == generate_fixes_from(str_split(c), iss, 0, cfg)

(***************************************************************************)
(* Inputs of the Fixer specification: any text over TextChars and any list *)
(* of Edits built from EditPairs and LineNumbers.                          *)
(***************************************************************************)
TextChars == {"a", NL}
Texts == UNION {[1..k -> TextChars] : k \in 0..MaxTextLen}
\* <<original text, replacement text>>
EditPairs ==
    { << <<"a">>, <<"b">> >>, << <<"a">>, <<NL>> >>,
      << <<"a", "a">>, <<"b">> >>, << <<"a", "a">>, <<NL>> >>,
      << <<>>, <<"b">> >> }
LineNumbers == (0 - MaxNegLineNo)..MaxLineNo

FixLists ==
    UNION {{[i \in 1..k |-> AutoFix(str_int(i - 1), p[i][1], p[i][2], l[i], "high")] :
                p \in [1..k -> EditPairs],
                l \in [1..k -> LineNumbers]} : k \in 0..MaxFixes}

(***************************************************************************)
(* The Fixer on its own: a StyleFixer, a text and a list of Edits, and     *)
(* any number of apply_fixes calls on them.                                *)
(***************************************************************************)
FixerInit ==
    /\ config = EmptyConfig
    /\ issues = <<>>
    /\ text_content = <<>>
    /\ line_mapping = <<>>
    /\ headings = <<>>
    /\ fixes_applied = <<>>
    /\ op = "init"
    /\ content \in Texts
    /\ fixes \in FixLists
    /\ result = <<>>
    /\ raised = FALSE

\* StyleFixer.__init__
NewFixer ==
    /\ fixes_applied' = <<>>
    /\ op' = "init"
    /\ result' = <<>>
    /\ raised' = FALSE
    /\ UNCHANGED <<content, fixes>>
    /\ UNCHANGED checker_vars

\* fixer.apply_fixes(content, fixes)
ApplyFixes ==
    LET r == apply_fixes(content, fixes) IN
    /\ Len(fixes_applied) + Len(r.applied) <= MaxApplied
    /\ fixes_applied' = fixes_applied \o r.applied
    /\ op' = "apply_fixes"
    /\ result' = r.text
    /\ raised' = r.raised
    /\ UNCHANGED <<content, fixes>>
    /\ UNCHANGED checker_vars

FixerNext == NewFixer \/ ApplyFixes

SpecFixer == FixerInit /\ [][FixerNext]_vars

(***************************************************************************)
(* The pipeline: a configuration and a document, and the operations on     *)
(* them in any order.  A document is up to MaxDocLines lines of DocLines.  *)
(***************************************************************************)
DocLines ==
    <<<<"<", "h", "1", ">", "A", "<", "/", "h", "1", ">">>,
      <<"<", "h", "3", ">", "C", "<", "/", "h", "3", ">">>,
      <<"<", "d", ">", "<", "h", "1", ">", "A", "<", "/", "h", "1", ">", "<", "h", "2", ">", "B", "<", "/", "h", "2", ">", "<", "/", "d", ">">>,
      <<"T", "h", "i", "s", " ", "s", "h", "o", "u", "l", "d", "n", "'", "t", " ", "h", "a", "p", "p", "e", "n", ".">>,
      <<"C", "h", "e", "c", "k", " ", "A", "O", "S", ",", " ", "A", "H", "V", " ", "a", "n", "d", " ", "N", "C", "C", ".">>,
      <<"w", "h", "i", "t", "e", "l", "i", "s", "t">>,
      <<"b", "l", "a", "c", "k", "l", "i", "s", "t", " ", "w", "h", "i", "t", "e", "l", "i", "s", "t">>,
      <<>>>>
Documents ==
    {str_join(d) : d \in UNION {[1..k -> Range(DocLines)] : k \in 1..MaxDocLines}}
Configs ==
    {EmptyConfig,
     Config(Absent, "use_sparingly", Absent),
     Config(Absent, Absent, "always_use"),
     Config("active_voice_imperative", "use_sparingly", "always_use")}

Init ==
    /\ config \in Configs
    /\ content \in Documents
    /\ issues = <<>>
    /\ text_content = <<>>
    /\ line_mapping = <<>>
    /\ headings = <<>>
    /\ fixes_applied = <<>>
    /\ op = "init"
    /\ fixes = <<>>
    /\ result = <<>>
    /\ raised = FALSE

\* ContentExtractor().extract_content(content)
ExtractContent ==
    \E ex \in {extract_content(content)} :
    /\ text_content' = ex.text_content
    /\ line_mapping' = ex.line_mapping
    /\ headings' = ex.headings
    /\ raised' = ex.raised
    /\ op' = "extract_content"
    /\ UNCHANGED <<config, issues, fixes_applied, content, fixes, result>>

\* checker.check_content(content); text_content, line_mapping and headings
\* are what its extractor returned
CheckContent ==
    \E r \in {check_content(content, config)} :
    /\ issues' = reset_issues(issues) \o r.issues
    /\ IF r.ran
       THEN /\ text_content' = r.ex.text_content
            /\ line_mapping' = r.ex.line_mapping
            /\ headings' = r.ex.headings
       ELSE UNCHANGED <<text_content, line_mapping, headings>>
    /\ raised' = r.raised
    /\ op' = "check_content"
    /\ UNCHANGED <<config, fixes_applied, content, fixes, result>>

\* fixes = checker.fixer.generate_fixes(content, checker.issues)
GenerateFixes ==
    /\ fixes' = generate_fixes(content, issues, config)
    /\ raised' = FALSE
    /\ op' = "generate_fixes"
    /\ UNCHANGED <<checker_vars, fixes_applied, content, result>>

Next == ExtractContent \/ CheckContent \/ GenerateFixes \/ ApplyFixes \/ NewFixer

Spec == Init /\ [][Next]_vars

(***************************************************************************)
(* One checker, one document after another: the caller checks a document,  *)
(* proposes Edits, and comes back with another document.  A document here  *)
(* is one line of CheckerLines after up to MaxDocLines - 1 blank lines.    *)
(***************************************************************************)
CheckerLines ==
    DocLines \o
    <<<<"O", "b", "v", "i", "o", "u", "s", "l", "y", " ", "f", "i", "n", "e", ".">>,
      <<"<", "p", ">", "c", "l", "e", "a", "r", "l", "y", "<", "/", "p", ">", "<", "p", ">", "w", "h", "i", "t", "e", "l", "i", "s", "t", "<", "/", "p", ">">>,
      <<"<", "p", ">", "w", "h", "i", "t", "e", "l", "i", "s", "t", "<", "/", "p", ">", "<", "p", ">", "c", "l", "e", "a", "r", "l", "y", "<", "/", "p", ">">>,
      <<"I", "t", " ", "i", "s", " ", "s", "e", "t", ",", " ", "s", "h", "o", "u", "l", "d", "n", "'", "t", " ", "i", "t", ".">>,
      <<"<", "d", ">", "<", "h", "3", ">", "c", "l", "e", "a", "r", "l", "y", "<", "/", "h", "3", ">", "<", "h", "1", ">", "w", "h", "i", "t", "e", "l", "i", "s", "t", "<", "/", "h", "1", ">", "<", "/", "d", ">">>>>
CheckerDocuments ==
    {[i \in 1..(k - 1) |-> NL] \o l : k \in 1..MaxDocLines, l \in Range(CheckerLines)}

CheckerInit ==
    /\ config \in Configs
    /\ content \in CheckerDocuments
    /\ issues = <<>>
    /\ text_content = <<>>
    /\ line_mapping = <<>>
    /\ headings = <<>>
    /\ fixes_applied = <<>>
    /\ op = "init"
    /\ fixes = <<>>
    /\ result = <<>>
    /\ raised = FALSE

\* The caller turns to another document; the checker is the same object.
NewDocument ==
    /\ content' \in CheckerDocuments
    /\ content' # content
    /\ op' = "new_document"
    /\ UNCHANGED <<checker_vars, fixes_applied, fixes, result, raised>>

CheckerNext == CheckContent \/ GenerateFixes \/ NewDocument

SpecChecker == CheckerInit /\ [][CheckerNext]_vars

(***************************************************************************)
(* One extractor and one document, put together from up to MaxPieces       *)
(* pieces of markup: open and closed headings, paragraphs, text, line      *)
(* ends, blanks and a marked section.                                      *)
(***************************************************************************)
MaxPieces == 3
Pieces ==
    {<<"<", "h", "1", ">", "A">>,
     <<"<", "/", "h", "1", ">">>,
     <<"<", "h", "2", ">", "B", "<", "/", "h", "2", ">">>,
     <<"<", "/", "h", "2", ">">>,
     <<"<", "p", ">">>,
     <<"<", "/", "p", ">">>,
     <<"C">>,
     <<NL>>,
     <<" ">>,
     <<"<", "!", "[", "x", ">">>,
     <<"<", "h", "1", ">", "<", "p", ">", "B", "<", "/", "p", ">", "C", "<", "/", "h", "1", ">">>,
     <<"B", NL, "C">>}

RECURSIVE PiecedDocuments(_)
PiecedDocuments(n) ==
    IF n = 0 THEN {<<>>}
    ELSE PiecedDocuments(n - 1)
            \cup {d \o p : d \in PiecedDocuments(n - 1), p \in Pieces}
ExtractorDocuments == PiecedDocuments(MaxPieces)

ExtractorInit ==
    /\ config = EmptyConfig
    /\ content \in ExtractorDocuments
    /\ issues = <<>>
    /\ text_content = <<>>
    /\ line_mapping = <<>>
    /\ headings = <<>>
    /\ fixes_applied = <<>>
    /\ op = "init"
    /\ fixes = <<>>
    /\ result = <<>>
    /\ raised = FALSE

ExtractorNext == ExtractContent

SpecExtractor == ExtractorInit /\ [][ExtractorNext]_vars

(***************************************************************************)
(* The conversion to sentence case on its own: a heading text of up to     *)
(* MaxWords words of HeadingWords, and the fixer's conversion of it.       *)
(***************************************************************************)
MaxWords == 3
HeadingWords ==
    {<<"A", "P", "I">>, <<"k", "b">>, <<"U", "i">>, <<"T", "h", "e">>, <<"N", "O", "D", "E">>, <<"n", "o", "d", "e", "'", "s">>}
RECURSIVE HeadingTexts(_)
HeadingTexts(n) ==
    IF n = 0 THEN {<<>>}
    ELSE IF n = 1 THEN {<<>>} \cup HeadingWords
    ELSE HeadingTexts(n - 1)
            \cup {t \o <<" ">> \o w : t \in HeadingTexts(n - 1) \ {<<>>}, w \in HeadingWords}

SentenceCaseInit ==
    /\ config = EmptyConfig
    /\ content \in HeadingTexts(MaxWords)
    /\ issues = <<>>
    /\ text_content = <<>>
    /\ line_mapping = <<>>
    /\ headings = <<>>
    /\ fixes_applied = <<>>
    /\ op = "init"
    /\ fixes = <<>>
    /\ result = <<>>
    /\ raised = FALSE

\* result = fixer._convert_to_sentence_case(content)
ConvertToSentenceCase ==
    /\ result' = convert_to_sentence_case(content)
    /\ op' = "convert_to_sentence_case"
    /\ raised' = FALSE
    /\ UNCHANGED <<checker_vars, fixes_applied, content, fixes>>

SentenceCaseNext == ConvertToSentenceCase

SpecSentenceCase == SentenceCaseInit /\ [][SentenceCaseNext]_vars

(***************************************************************************)
(* The Fixer's proposals on their own: a fixer with a configuration, a     *)
(* document and a list of issues, either those check_content raised on the *)
(* document or up to MaxIssues auto-fixable issues a caller made for its   *)
(* last line, one of a rule the Fixer dispatches on each.  A document is   *)
(* one line of ProposerLines after up to MaxDocLines - 1 blank lines.      *)
(***************************************************************************)
MaxIssues == 2
ProposerLines ==
    <<<<"S", "i", "n", "g", "l", "e", " ", "N", "o", "d", "e", " ", "c", "l", "u", "s", "t", "e", "r">>,
     <<"s", "i", "n", "g", "l", "e", " ", "n", "o", "d", "e", ",", " ", "i", "t", " ", "i", "s", " ", "s", "e", "t", " ", "b", "y", " ", "x">>,
     <<"I", "t", " ", "I", "s", " ", "S", "e", "t", " ", "B", "y", " ", "x">>,
     <<"S", "h", "o", "u", "l", "d", "n", "'", "t", " ", "i", "t", ",", " ", "c", "o", "u", "l", "d", "n", "'", "t", " ", "i", "t", ".">>,
     <<"a", ",", " ", "b", " ", "a", "n", "d", " ", "c", " ", "o", "r", " ", "d", ",", " ", "e", " ", "a", "n", "d", " ", "f">>,
     <<"T", "h", "e", " ", "d", "i", "s", "k", " ", "i", "s", " ", "f", "u", "l", "l", ".">>,
     <<"C", "v", "m", " ", "a", "n", "d", " ", "d", "i", "s", "k">>,
     <<"C", "v", "m">>,
     <<"K", "i", "l", "l", " ", "t", "h", "e", " ", "s", "e", "r", "v", "i", "c", "e", " ", "n", "o", "w", ".">>,
     <<"P", "r", "e", "s", "s", " ", "'", "M", "e", "n", "u", "'", " ", "n", "o", "w", ".">>,
     <<"<", "h", "1", ">", "S", "e", "t", " ", "U", "P", " ", "n", "o", "d", "e", "<", "/", "h", "1", ">">>,
     <<"<", "h", "1", ">", "A", "P", "I", " ", "S", "E", "T", "U", "P", " ", "g", "u", "i", "d", "e", "<", "/", "h", "1", ">">>,
     <<"o", "p", "l", "o", "g", " ", "a", "n", "d", " ", "d", "i", "s", "k">>,
     <<"i", "t", " ", "i", "s", " ", "s", "e", "t", " ", "b", "y", " ", "t", "h", "e", " ", "s", "i", "n", "g", "l", "e", " ", "n", "o", "d", "e", " ", "c", "l", "u", "s", "t", "e", "r">>>>
ProposerDocuments ==
    {[i \in 1..(k - 1) |-> NL] \o l : k \in 1..MaxDocLines, l \in Range(ProposerLines)}

\* A configuration that switches every check of the model on.
FullConfig ==
    [Config("active_voice_imperative", "use_sparingly", "always_use")
        EXCEPT !.capitalization_rule = "sentence_case",
               !.hyphens_rule = "compound_adjectives",
               !.quotes_rule = "double_quotes",
               !.avoid_terms = <<<<"k", "i", "l", "l", " ", "t", "h", "e", " ", "s", "e", "r", "v", "i", "c", "e">>>>,
               !.deprecated_terms = << <<<<"d", "i", "s", "k">>, <<"v", "i", "r", "t", "u", "a", "l", " ", "d", "i", "s", "k">>>>,
                                       <<<<"o", "p", "l", "o", "g">>, s_remove>>,
                                       <<<<"c", "v", "m">>, <<"C", "o", "n", "t", "r", "o", "l", "l", "e", "r", " ", "V", "M">>>> >>]
ProposerConfigs ==
    <<FullConfig,
     [FullConfig EXCEPT !.deprecated_terms = << <<<<"o", "p", "l", "o", "g">>, s_remove>>,
                                               <<<<"D", "i", "s", "k">>, <<"d", "r", "i", "v", "e">>>> >>]>>

\* The rule ids _create_fix_for_issue dispatches on
FixRules ==
    {"capitalization", "contractions", "oxford_comma", "deprecated_terms",
     "voice_and_mood", "approved_phrasing", "hyphens", "quotes"}

\* An auto-fixable issue of a rule, made by a caller for a line
HandIssue(rule, line_number) ==
    StyleIssue(line_number, "info", "Manual",
               IF rule = "capitalization" THEN s_heading ELSE <<>>,
               rule, <<>>, <<>>, TRUE)
HandIssueLists(line_number) ==
    UNION {[1..k -> {HandIssue(rule, line_number) : rule \in FixRules}] : k \in 1..MaxIssues}

ProposerInit ==
    /\ config \in Range(ProposerConfigs)
    /\ content \in ProposerDocuments
    /\ issues \in {check_content(content, config).issues}
                     \cup HandIssueLists(Len(str_split(content)))
    /\ text_content = <<>>
    /\ line_mapping = <<>>
    /\ headings = <<>>
    /\ fixes_applied = <<>>
    /\ op = "init"
    /\ fixes = <<>>
    /\ result = <<>>
    /\ raised = FALSE

ProposerNext == CheckContent \/ GenerateFixes \/ ApplyFixes \/ NewFixer

SpecProposer == ProposerInit /\ [][ProposerNext]_vars

(***************************************************************************)
(* The pipeline, run to its end on one document after another: a checker   *)
(* is made for a configuration, checks the document, its fixer proposes    *)
(* Edits for the issues and applies them; then the same for the next       *)
(* document, and for the next configuration once the documents are through.*)
(* Each step of a run follows the one before it.                           *)
(***************************************************************************)
CycleDocuments ==
    [n \in 1..(Len(ProposerLines) * MaxDocLines) |->
        [i \in 1..((n - 1) % MaxDocLines) |-> NL]
            \o ProposerLines[((n - 1) \div MaxDocLines) + 1]]
DocumentIndex(c) == CHOOSE n \in 1..Len(CycleDocuments) : CycleDocuments[n] = c
ConfigIndex(cfg) == CHOOSE n \in 1..Len(ProposerConfigs) : ProposerConfigs[n] = cfg
LastDocument(c) == DocumentIndex(c) = Len(CycleDocuments)

CycleInit ==
    /\ config = ProposerConfigs[1]
    /\ content = CycleDocuments[1]
    /\ issues = <<>>
    /\ text_content = <<>>
    /\ line_mapping = <<>>
    /\ headings = <<>>
    /\ fixes_applied = <<>>
    /\ op = "init"
    /\ fixes = <<>>
    /\ result = <<>>
    /\ raised = FALSE

\* issues = checker.check_content(content), of a checker just made
RunCheck == op = "init" /\ CheckContent

\* fixes = checker.fixer.generate_fixes(content, issues), after the check
RunGenerate == op = "check_content" /\ GenerateFixes

\* checker.fixer.apply_fixes(content, fixes), after the proposal
RunApply == op = "generate_fixes" /\ ApplyFixes

\* StreamlitStyleChecker(config) for the next document
NextRun ==
    /\ op = "apply_fixes"
    /\ content' = CycleDocuments[(DocumentIndex(content) % Len(CycleDocuments)) + 1]
    /\ config' = IF LastDocument(content)
                 THEN ProposerConfigs[(ConfigIndex(config) % Len(ProposerConfigs)) + 1]
                 ELSE config
    /\ issues' = <<>>
    /\ text_content' = <<>>
    /\ line_mapping' = <<>>
    /\ headings' = <<>>
    /\ fixes_applied' = <<>>
    /\ fixes' = <<>>
    /\ result' = <<>>
    /\ raised' = FALSE
    /\ op' = "init"

CycleNext == RunCheck \/ RunGenerate \/ RunApply \/ NextRun

\* The order of the operations of a run
NextOp(o) ==
    IF o = "init" THEN "check_content"
    ELSE IF o = "check_content" THEN "generate_fixes"
    ELSE IF o = "generate_fixes" THEN "apply_fixes"
    ELSE "init"
\* The caller goes on to the next operation: each operation returns (or
\* raises), and the calls of a run stand one after the other.
GoesOn == op' = NextOp(op)

\* Some step of CycleNext is possible in every state and each is a GoesOn
\* step, so the condition is weak fairness of CycleNext.
SpecCycle == CycleInit /\ [][CycleNext]_vars /\ WF_op(GoesOn)

(***************************************************************************)
(* Properties of apply_fixes.                                              *)
(***************************************************************************)
LineCount(t) == Len(str_split(t))
Applies == op = "apply_fixes"
Returns == op = "apply_fixes" /\ ~raised

\* The 1-based positions of the lines list an Edit's target line addresses
\* that are real line numbers of the text.
InRange(f, c) == f.line_number \in 1..LineCount(c)

\* C1: every text apply_fixes returns has as many '\n'-separated lines as
\* the text it was given, whatever the original and replacement texts of
\* the Edits (stated here for the calls whose target lines are all 1 or
\* more, where no target line addresses a line from the end of the list).
C1_LineCountPreserved ==
    (Returns /\ \A i \in 1..Len(fixes) : fixes[i].line_number >= 1)
        => LineCount(result) = LineCount(content)

\* C2: an Edit whose target line is not one of 1..number of lines raises no
\* error and is skipped: the call returns what applying the in-range Edits
\* alone returns.
C2_OutOfRangeSkipped ==
    Applies =>
        /\ ~raised
        /\ result = apply_fixes(content,
                        SelectSeq(fixes, LAMBDA f : InRange(f, content))).text

\* Every position of s at which old occurs (overlapping occurrences count).
Occurrences(s, old) ==
    {i \in 1..Len(s) : StartsWith(SubSeq(s, i, Len(s)), old)}

\* The start positions a left-to-right scan without overlap finds.
RECURSIVE occurrence_starts(_, _, _)
occurrence_starts(s, old, from) ==
    IF from + Len(old) - 1 > Len(s) THEN {}
    ELSE IF SubSeq(s, from, from + Len(old) - 1) = old
         THEN {from} \cup occurrence_starts(s, old, from + Len(old))
         ELSE occurrence_starts(s, old, from + 1)

\* r is line with each occurrence of old that the scan finds replaced by
\* new and every other character kept, stated position by position.
AllReplaced(line, old, new, r) ==
    LET P == occurrence_starts(line, old, 1)
        d == Len(new) - Len(old)
        before(i) == Cardinality({p \in P : p < i})
        covered(i) == \E p \in P : p <= i /\ i < p + Len(old)
    IN /\ Len(r) = Len(line) + Cardinality(P) * d
       /\ \A p \in P :
            \A j \in 1..Len(new) : r[p + before(p) * d + j - 1] = new[j]
       /\ \A i \in 1..Len(line) :
            ~covered(i) => r[i + before(i) * d] = line[i]

\* A call with one Edit, in range, with a non-empty original text.
SingleEditCall ==
    /\ Returns
    /\ Len(fixes) = 1
    /\ InRange(fixes[1], content)
    /\ fixes[1].original_text # <<>>

\* The part of the returned text that stands where the target line stood.
TargetSegment ==
    LET lines == str_split(content)
        ln == fixes[1].line_number
        pre == Len(str_join(SubSeq(lines, 1, ln - 1))) + (IF ln > 1 THEN 1 ELSE 0)
        post == Len(str_join(SubSeq(lines, ln + 1, Len(lines))))
                    + (IF ln < Len(lines) THEN 1 ELSE 0)
    IN [pre |-> pre, post |-> post,
        seg |-> IF pre + post <= Len(result)
                THEN SubSeq(result, pre + 1, Len(result) - post) ELSE <<>>]

\* C3 as stated: on a target line that contains the original text more
\* than once only the first occurrence is replaced.
C3_OnlyFirstReplaced ==
    (SingleEditCall
       /\ Cardinality(Occurrences(str_split(content)[fixes[1].line_number],
                                  fixes[1].original_text)) > 1)
    => result = str_join([str_split(content) EXCEPT ![fixes[1].line_number] =
                    str_replace_first(@, fixes[1].original_text, fixes[1].fixed_text)])

\* C3 (amended): an applied Edit replaces every occurrence of its original
\* text that a left-to-right scan without overlap finds on the target line,
\* later occurrences included, and leaves the rest of the text unchanged.
C3_EveryOccurrenceReplaced ==
    SingleEditCall =>
        LET lines == str_split(content)
            f == fixes[1]
            t == TargetSegment
        IN /\ t.pre + t.post <= Len(result)
           /\ SubSeq(result, 1, t.pre) = SubSeq(content, 1, t.pre)
           /\ SubSeq(result, Len(result) - t.post + 1, Len(result))
                = SubSeq(content, Len(content) - t.post + 1, Len(content))
           /\ AllReplaced(lines[f.line_number], f.original_text, f.fixed_text, t.seg)

C3_Witness ==
    /\ SingleEditCall
    /\ Cardinality(occurrence_starts(str_split(content)[fixes[1].line_number],
                                     fixes[1].original_text, 1)) > 1
    /\ LineCount(content) > 1

\* lines with fix applied to the line it addresses (Python list indexing).
replace_at(lines, fix) ==
    LET pos == IF fix.line_number >= 1 THEN fix.line_number
               ELSE Len(lines) + fix.line_number
    IN [lines EXCEPT ![pos] = str_replace(@, fix.original_text, fix.fixed_text)]

RECURSIVE one_by_one(_, _)
one_by_one(lines, fs) ==
    IF fs = <<>> THEN lines ELSE one_by_one(replace_at(lines, Head(fs)), Tail(fs))

\* The place of an Edit in the list given to apply_fixes.
InputIndex(f) == Min({k \in 1..Len(fixes) : fixes[k] = f})

\* C4: whatever the order of the input list, the Edits of one call are
\* applied in non-increasing target-line order, Edits of the same target
\* line in input order, each to the line as the Edits before it left it.
C4_DescendingStableOrder ==
    [][op' = "apply_fixes" =>
        LET newly == SubSeq(fixes_applied', Len(fixes_applied) + 1,
                            Len(fixes_applied'))
        IN /\ \A i, j \in 1..Len(newly) : i < j =>
                /\ newly[i].line_number >= newly[j].line_number
                /\ newly[i].line_number = newly[j].line_number
                       => InputIndex(newly[i]) < InputIndex(newly[j])
           /\ ~raised' => result' = str_join(one_by_one(str_split(content), newly))
      ]_vars

\* Two Edits given in ascending line order, both applied, the later first.
C4_Witness ==
    /\ Returns
    /\ Len(fixes) = 2
    /\ InRange(fixes[1], content) /\ InRange(fixes[2], content)
    /\ fixes[1].line_number < fixes[2].line_number
    /\ fixes_applied = <<fixes[2], fixes[1]>>
    /\ result # content

Perms(k) == {p \in [1..k -> 1..k] : \A i, j \in 1..k : i # j => p[i] # p[j]}

\* Successive apply_fixes calls, one Edit each, each on the text the call
\* before it returned.
RECURSIVE one_call_each(_, _)
one_call_each(c, fs) ==
    IF fs = <<>> THEN c
    ELSE one_call_each(apply_fixes(c, <<Head(fs)>>).text, Tail(fs))

DistinctInRange ==
    /\ \A i \in 1..Len(fixes) : InRange(fixes[i], content)
    /\ \A i, j \in 1..Len(fixes) :
            i # j => fixes[i].line_number # fixes[j].line_number

\* C5: with pairwise distinct in-range target lines every permutation of
\* the Edit list gives the same text, and so does applying the Edits one
\* call at a time in any order.
C5_OrderIndependent ==
    (Applies /\ DistinctInRange) =>
        \A p \in Perms(Len(fixes)) :
            LET fp == [i \in 1..Len(fixes) |-> fixes[p[i]]]
            IN /\ apply_fixes(content, fp).text = result
               /\ one_call_each(content, fp) = result

(***************************************************************************)
(* Properties of the pipeline                                              *)
(***************************************************************************)
\* The members of a set of numbers in ascending order.
Ascending(S) ==
    [k \in 1..Cardinality(S) |->
        CHOOSE x \in S : Cardinality({y \in S : y < x}) = k - 1]

Extracts == op = "extract_content"
Checks == op = "check_content"
Generates == op = "generate_fixes"
\* The issues are those of a check of this document, and the Edits those
\* generated from them.
Checked == issues = check_content(content, config).issues
Generated == Generates /\ Checked

NoMarkup(c) == \A i \in 1..Len(c) : c[i] \notin {"<", ">"}
SourceLines == str_split(content)
NonBlankLines ==
    Ascending({l \in 1..Len(SourceLines) : str_strip(SourceLines[l]) # <<>>})

\* C6: for an input with no markup extract_content returns one fragment per
\* non-blank source line, the trimmed line, in order; the line map entry of
\* each fragment is the 1-based index of its source line; and no Heading.
C6_PlainTextRoundTrip ==
    (Extracts /\ NoMarkup(content)) =>
        /\ text_content = [k \in 1..Len(NonBlankLines) |->
                              str_strip(SourceLines[NonBlankLines[k]])]
        /\ line_mapping = NonBlankLines
        /\ headings = <<>>

HierarchyIssues == SelectSeq(issues, LAMBDA i : i.rule = "heading_hierarchy")
\* The level the heading before heading k has; 0 before the first heading.
LevelBefore(k) == IF k = 1 THEN 0 ELSE headings[k - 1].level
\* The headings that are more than one level below the heading before them,
\* and those that are more than one level below what precedes them when the
\* start of the document counts as level 0.
SkipsFromHeading ==
    Ascending({k \in 2..Len(headings) : headings[k].level > headings[k - 1].level + 1})
SkipsFromZero ==
    Ascending({k \in 1..Len(headings) : headings[k].level > LevelBefore(k) + 1})
\* The heading_hierarchy issues are warnings, one for each heading of hs in
\* order, each at its heading's line.
WarnsExactlyAt(hs) ==
    /\ Len(HierarchyIssues) = Len(hs)
    /\ \A k \in 1..Len(hs) :
        /\ HierarchyIssues[k].line_number = headings[hs[k]].line
        /\ HierarchyIssues[k].original_text = headings[hs[k]].text
        /\ HierarchyIssues[k].severity = "warning"

\* C7 as stated: check emits exactly one heading_hierarchy warning for each
\* heading whose level is more than one greater than the level of the
\* heading immediately before it, at that heading's line, and no other.
C7_WarnsOnSkipsBetweenHeadings == Checks => WarnsExactlyAt(SkipsFromHeading)

\* C7: in a document with at least two headings check emits exactly one
\* heading_hierarchy warning for each heading whose level is more than one
\* greater than the level before it, the level before the first heading
\* being 0, at that heading's line, and no other; in a document with fewer
\* than two headings it emits none.
C7_WarnsOnSkipsFromZero ==
    Checks => IF Len(headings) > 1 THEN WarnsExactlyAt(SkipsFromZero)
              ELSE HierarchyIssues = <<>>
\* Headings of levels 1 and 3 in a row, and the warning for the second.
C7_Witness ==
    /\ Checks
    /\ Len(headings) = 2 /\ headings[1].level = 1 /\ headings[2].level = 3
    /\ Len(HierarchyIssues) = 1

\* The avoided contractions a line holds; a line that holds exactly one of
\* them, once; that contraction; and the line with it expanded.
AvoidedIn(line) ==
    {k \in 1..Len(avoid_contractions) :
        str_contains(str_lower(line), avoid_contractions[k])}
TheContraction(line) == avoid_contractions[CHOOSE k \in AvoidedIn(line) : TRUE]
OneContraction(line) ==
    /\ Cardinality(AvoidedIn(line)) = 1
    /\ Cardinality(Occurrences(str_lower(line), TheContraction(line))) = 1
Expanded(line) ==
    LET c == TheContraction(line)
        at == str_find(str_lower(line), c)
    IN SubSeq(line, 1, at - 1) \o expand_contraction(c)
          \o SubSeq(line, at + Len(c), Len(line))
\* The Edits generated for the issue at position k of issues.
EditsFor(k) == {j \in 1..Len(fixes) : fixes[j].issue_id = str_int(k - 1)}

\* C8: under the policy use_sparingly a document line that holds one avoided
\* contraction yields exactly one contractions issue, whose original text is
\* that contraction and which is auto-fixable; the Edit proposed for it,
\* applied, turns the line into the line with the contraction expanded and
\* leaves every other line, and the line count, as they were.
C8_ContractionExpanded ==
    (Generated /\ config.contractions_policy = "use_sparingly") =>
        \A ln \in 1..Len(SourceLines) :
            OneContraction(SourceLines[ln]) =>
                LET found == {k \in 1..Len(issues) :
                                /\ issues[k].rule = "contractions"
                                /\ issues[k].line_number = ln}
                IN /\ Cardinality(found) = 1
                   /\ \A k \in found :
                        /\ issues[k].original_text = TheContraction(SourceLines[ln])
                        /\ issues[k].can_auto_fix
                        /\ \E j \in EditsFor(k) :
                            LET r == apply_fixes(content, <<fixes[j]>>) IN
                            /\ ~r.raised
                            /\ str_split(r.text) =
                                 [SourceLines EXCEPT ![ln] = Expanded(@)]

\* The lists "A, B and C" of a line, and such a list with the comma added.
ListsWithoutComma(line) ==
    SelectSeq(oxford_findall(line, 1), LAMBDA m : ~str_contains(m, s_comma_and))
WithOxfordComma(match) ==
    LET m == oxford_match_at(match, 1) IN
    SubSeq(match, 1, m.a - 1) \o <<",", " ">> \o SubSeq(match, m.b, m.c - 1)
        \o s_comma_and \o <<" ">> \o SubSeq(match, m.e, m.stop - 1)

\* C9: with the Oxford-comma rule enabled a line that holds a list of the
\* shape "A, B and C" yields an auto-fixable oxford_comma issue for it, and
\* the Edit proposed for that issue replaces exactly the matched text, on
\* that line, with "A, B, and C", with high confidence.
C9_OxfordCommaAdded ==
    (Generated /\ config.oxford_comma_rule = "always_use") =>
        \A ln \in 1..Len(SourceLines) :
            \A n \in 1..Len(ListsWithoutComma(SourceLines[ln])) :
                LET match == ListsWithoutComma(SourceLines[ln])[n] IN
                \E k \in 1..Len(issues) :
                    /\ issues[k].rule = "oxford_comma"
                    /\ issues[k].line_number = ln
                    /\ issues[k].original_text = match
                    /\ issues[k].can_auto_fix
                    /\ \E j \in EditsFor(k) :
                        /\ fixes[j].line_number = ln
                        /\ fixes[j].original_text = match
                        /\ fixes[j].fixed_text = WithOxfordComma(match)
                        /\ fixes[j].confidence = "high"

s_whitelist == <<"w", "h", "i", "t", "e", "l", "i", "s", "t">>
s_allow_list == <<"a", "l", "l", "o", "w", " ", "l", "i", "s", "t">>
InclusiveIssues ==
    {k \in 1..Len(issues) : issues[k].rule = "inclusive_language"}
\* The issues that name the term whitelist, and the fragments that hold it.
WhitelistIssues ==
    {k \in 1..Len(issues) :
        /\ issues[k].rule = "inclusive_language"
        /\ issues[k].message = msg_non_inclusive_1 \o s_whitelist \o msg_found}
WhitelistFragments ==
    {k \in 1..Len(text_content) :
        str_contains(str_lower(text_content[k]), s_whitelist)}

\* C10 as stated: a fragment that holds "whitelist" yields exactly one issue
\* of rule inclusive_language, of severity error, suggesting "allow list",
\* not auto-fixable (stated for the documents of one fragment).
C10_ExactlyOneInclusiveIssue ==
    (Checks /\ Len(text_content) = 1 /\ WhitelistFragments = {1}) =>
        /\ Cardinality(InclusiveIssues) = 1
        /\ \A k \in InclusiveIssues :
            /\ issues[k].severity = "error"
            /\ str_contains(issues[k].suggestion, s_allow_list)
            /\ ~issues[k].can_auto_fix

\* C10: each fragment that holds "whitelist" yields exactly one issue of rule
\* inclusive_language that names whitelist; it has severity error, the
\* suggestion "Use 'allow list' instead", and is not auto-fixable; and
\* generate_fixes proposes no Edit for any inclusive_language issue.
C10_OneWhitelistIssuePerFragment ==
    /\ Checks =>
        /\ Cardinality(WhitelistIssues) = Cardinality(WhitelistFragments)
        /\ \A k \in WhitelistIssues :
            /\ issues[k].severity = "error"
            /\ issues[k].suggestion = sug_use \o s_allow_list \o sug_instead
            /\ ~issues[k].can_auto_fix
    /\ Generates => \A k \in InclusiveIssues : EditsFor(k) = {}
\* Edits generated from the issues of a document with a whitelist issue.
C10_Witness ==
    /\ Generated
    /\ WhitelistIssues # {}
    /\ \A k \in WhitelistIssues : EditsFor(k) = {}

(***************************************************************************)
(* Properties of one checker over several documents.                       *)
(***************************************************************************)
\* C11: every run of check_content returns what a fresh checker returns for
\* the same document and configuration - the same issues in the same order -
\* whatever the runs before it left in the checker: issues of an earlier run
\* never show in a later result.
C11_SameAsFreshChecker ==
    [][op' = "check_content" =>
          issues' = check_content(content', config').issues]_vars

\* A run on a blank document, on a checker that still holds the fragments
\* of an earlier document that raised issues.
C11_Witness ==
    /\ Checks
    /\ str_strip(content) = <<>>
    /\ text_content # <<>>
    /\ check_extracted(Extracted(text_content, line_mapping, headings), config).issues # <<>>
    /\ issues = <<>>

\* The issue an Edit refers to: its issue reference is str(i) for the
\* 0-based index i of that issue.
SourceIssue(fix) == {k \in 1..Len(issues) : str_int(k - 1) = fix.issue_id}

\* C12: generate_fixes yields at most one Edit per auto-fixable issue and
\* none for any other: every Edit refers to an auto-fixable issue of the
\* list by its index, targets that issue's line, which is a line of the
\* text, and the Edits are in issue order (so no issue has two).
C12_EditsOfFixableIssues ==
    Generates =>
        /\ Len(fixes) <= Cardinality({k \in 1..Len(issues) : issues[k].can_auto_fix})
        /\ \A j \in 1..Len(fixes) :
              \E k \in SourceIssue(fixes[j]) :
                  /\ issues[k].can_auto_fix
                  /\ fixes[j].line_number = issues[k].line_number
                  /\ issues[k].line_number <= LineCount(content)
        /\ \A i, j \in 1..Len(fixes) :
              i < j => \A k \in SourceIssue(fixes[i]), l \in SourceIssue(fixes[j]) : k < l

\* Edits generated from a list whose first issue is not auto-fixable and
\* whose second is: one Edit, referring to index 1.
C12_Witness ==
    /\ Generates
    /\ Len(issues) = 2
    /\ ~issues[1].can_auto_fix
    /\ issues[2].can_auto_fix
    /\ Len(fixes) = 1
    /\ fixes[1].issue_id = <<"1">>

\* The rules of the checks that read the content_quality namespace
\* (_check_content_quality and _check_content_accessibility).
ContentQualityRules ==
    {"avoid_negative_terms", "inclusive_language", "descriptive_links", "ability_neutral"}

\* C13: with a configuration that has no namespace at all, check_content
\* returns no issue of a check tied to a namespace; in particular, with
\* content_quality absent, no content-quality or accessibility issue.
C13_AbsentNamespaceSilent ==
    (Checks /\ config = EmptyConfig) =>
        \A k \in 1..Len(issues) : issues[k].rule \notin ContentQualityRules

\* The rules by the pass of check_content that raises them: the loop over
\* the fragments, the accessibility pass, the checks of the whole document.
LoopRules ==
    {"oxford_comma", "voice_and_mood", "contractions", "direct_address",
     "avoid_negative_terms", "inclusive_language"}
AccessibilityRules == {"descriptive_links", "ability_neutral"}
DocumentRules == {"table_of_contents", "heading_hierarchy"}
Pass(rule) ==
    IF rule \in LoopRules THEN 1 ELSE IF rule \in AccessibilityRules THEN 2 ELSE 3

RECURSIVE Flatten(_)
Flatten(seqs) == IF seqs = <<>> THEN <<>> ELSE Head(seqs) \o Flatten(Tail(seqs))

\* What the category checks of the loop, in their order, raise on fragment
\* i, and what the accessibility checks raise on it.
LoopIssuesOf(i) ==
    check_grammar_and_mechanics(text_content[i], line_mapping[i], config)
        \o check_writing_standards(text_content[i], line_mapping[i], config)
        \o check_content_quality(text_content[i], line_mapping[i], config)
AccessibilityIssuesOf(i) == check_content_accessibility_line(text_content[i], i)
FragmentIssues == SelectSeq(issues, LAMBDA issue : issue.rule \notin DocumentRules)
CheckedDocument == Checks /\ str_strip(content) # <<>>

C15_MappedLineOfFragment ==
    CheckedDocument =>
        FragmentIssues =
            Flatten([i \in 1..Len(text_content) |-> LoopIssuesOf(i)])
              \o Flatten([i \in 1..Len(text_content) |->
                    check_content_accessibility_line(text_content[i], line_mapping[i])])

(***************************************************************************)
(* Properties of extract_content.                                          *)
(***************************************************************************)
\* The document parses as XML (after the root of line 369, where it gets
\* one), and the steps of the two strategies on it.
StrictlyParsed(markup) == ET_fromstring(with_root(markup)).ok
StrictWalk(markup) ==
    walk_xml_tree(ET_fromstring(with_root(markup)).root, str_split(markup))
PermissiveParse(markup) ==
    html_feed(tokenize(with_root(markup)), 1, str_split(markup), 0)
\* The three fields of the extractor are what the steps leave.
Holds(steps) == Extracted(text_content, line_mapping, headings) = extracted(steps)

\* C16: extract_content never raises: it returns the result of the
\* tree walk where the strict parse succeeds and the result of the
\* permissive parser where it fails, whole and unmixed.
C16_NeverRaises ==
    Extracts =>
        /\ ~raised
        /\ IF StrictlyParsed(content)
           THEN Holds(StrictWalk(content))
           ELSE Holds(PermissiveParse(content))

\* The source lines that hold the text of fragment i as a substring.
HoldingLines(i) ==
    {n \in 1..LineCount(content) : str_contains(str_split(content)[n], text_content[i])}

\* C17: the line map value of every fragment, of either strategy, is the
\* smallest index of a source line that holds the fragment text as a
\* substring, and 1 where no source line holds it; fragments of the same
\* text have the same line map value.
C17_FirstHoldingLine ==
    (Extracts /\ ~raised) =>
        /\ \A i \in 1..Len(text_content) :
              IF HoldingLines(i) = {}
              THEN line_mapping[i] = 1
              ELSE /\ line_mapping[i] \in HoldingLines(i)
                   /\ \A n \in HoldingLines(i) : line_mapping[i] <= n
        /\ \A i, j \in 1..Len(text_content) :
              text_content[i] = text_content[j] => line_mapping[i] = line_mapping[j]

\* Two fragments of the same text from two source lines, both mapped to
\* the first of the lines.
C17_Witness ==
    /\ Extracts /\ ~raised
    /\ Len(text_content) = 2
    /\ text_content[1] = text_content[2]
    /\ HoldingLines(2) = {1, 2}
    /\ line_mapping = <<1, 1>>

\* The markup inside a synthetic root, and the documents that are
\* well-formed but for the single root: inside a root they parse, to two or
\* more elements at the top.
Rooted(markup) == s_root_open \o markup \o s_root_close
SiblingsAtTop(markup) ==
    /\ ET_fromstring(Rooted(markup)).ok
    /\ Len(ET_fromstring(Rooted(markup)).root.children) >= 2

\* C18: a well-formed document of several sibling elements at the top is
\* put inside a synthetic root and walked as a tree: fragments, line map
\* and headings are those of the tree walk over the document in its root.
C18_SiblingsStrictlyWalked ==
    (Extracts /\ SiblingsAtTop(content)) =>
        /\ ~raised
        /\ Holds(walk_xml_tree(ET_fromstring(Rooted(content)).root, str_split(content)))

\* The events of the permissive parser on the document are the tokens of
\* what it is fed.  The text events whose trimmed text is not empty, in
\* order; the heading tags before event i; and the heading that is open at
\* event i: the level of the last heading tag before it where that is a
\* start tag, 0 where it is an end tag or there is none.
Events == tokenize(with_root(content))
TextEvents(toks) ==
    SelectSeq([i \in 1..Len(toks) |-> i],
              LAMBDA i : toks[i].kind = "text" /\ str_strip(toks[i].text) # <<>>)
HeadingTagsBefore(toks, i) ==
    {j \in 1..(i - 1) : toks[j].kind \in {"start", "end"} /\ is_heading_tag(toks[j].name)}
LastHeadingTag(toks, i) == toks[Max(HeadingTagsBefore(toks, i))]
OpenHeading(toks, i) ==
    IF HeadingTagsBefore(toks, i) = {} \/ LastHeadingTag(toks, i).kind = "end"
    THEN 0
    ELSE heading_level(LastHeadingTag(toks, i).name)
\* The fragments that are recorded as headings, where ev are the text
\* events of the fragments.
HeadingFragments(toks, ev) ==
    SelectSeq([k \in 1..Len(ev) |-> k], LAMBDA k : OpenHeading(toks, ev[k]) # 0)
\* The fields of the extractor are those of the text events ev, of which
\* the fragments hs are headings.
Recorded(toks, ev, hs) ==
    /\ text_content = [k \in 1..Len(ev) |-> str_strip(toks[ev[k]].text)]
    /\ Len(line_mapping) = Len(ev)
    /\ headings = [n \in 1..Len(hs) |->
                      Heading(OpenHeading(toks, ev[hs[n]]), text_content[hs[n]],
                              line_mapping[hs[n]])]
PermissivelyParsed == Extracts /\ ~raised /\ ~StrictlyParsed(content)

\* C19: in the permissive parser every text event whose trimmed text is
\* not empty is a fragment; it is a heading exactly when a heading start
\* tag came before it with no heading end tag since, at the level of the
\* last heading start tag; any heading end tag clears the heading state.
C19_HeadingState ==
    PermissivelyParsed =>
        Recorded(Events, TextEvents(Events),
                 HeadingFragments(Events, TextEvents(Events)))

\* Text in a heading of level 1, text in a heading of level 2 opened
\* inside it, and text after the end tag of the inner heading, which is
\* no heading although the outer heading was never closed.
C19_Witness ==
    /\ PermissivelyParsed
    /\ Len(text_content) = 3
    /\ Len(headings) = 2
    /\ headings[1].level = 1 /\ headings[1].text = text_content[1]
    /\ headings[2].level = 2 /\ headings[2].text = text_content[2]
    /\ ~str_contains(content, <<"<", "/", "h", "1", ">">>)
    /\ OpenHeading(Events, TextEvents(Events)[3]) = 0

\* In a document that parses, the text segments in document order are the
\* text tokens in order; the leading text of an element is the text token
\* right after its start tag, every other text token is a tail.
StrictlyWalked == Extracts /\ ~raised /\ StrictlyParsed(content)
LeadsHeading(toks, i) ==
    i > 1 /\ toks[i - 1].kind = "start" /\ is_heading_tag(toks[i - 1].name)
LedHeadings(toks, ev) ==
    SelectSeq([k \in 1..Len(ev) |-> k], LAMBDA k : LeadsHeading(toks, ev[k]))
Walked(toks, ev, hs) ==
    /\ text_content = [k \in 1..Len(ev) |-> str_strip(toks[ev[k]].text)]
    /\ Len(line_mapping) = Len(ev)
    /\ headings = [n \in 1..Len(hs) |->
                      Heading(heading_level(toks[ev[hs[n]] - 1].name),
                              text_content[hs[n]], line_mapping[hs[n]])]

\* C20: the tree walk emits the text segments in document order - the
\* leading text of an element, then child by child the subtree of the
\* child and the tail of the child - and none for a segment of white space
\* only; a heading comes only from the leading text of a heading element,
\* with the text and the line of that fragment.
C20_DocumentOrder ==
    StrictlyWalked =>
        Walked(Events, TextEvents(Events), LedHeadings(Events, TextEvents(Events)))

\* Leading text, a heading child with text, and the tail of the child: three
\* fragments in this order, the second one a heading.
C20_Witness ==
    /\ StrictlyWalked
    /\ Len(text_content) = 3
    /\ Len(headings) = 1
    /\ headings[1].text = text_content[2]
    /\ text_content[3] # text_content[2]
    /\ Events[TextEvents(Events)[3] - 1].kind = "end"
    /\ Events[TextEvents(Events)[1] - 1].kind = "start"

\* C26: after extract_content, whichever strategy ran, every fragment is
\* non-empty and trimmed, the keys of the line map are 1..number of
\* fragments, and every line map value is the number of a source line.
C26_FragmentsTrimmedAndMapped ==
    (Extracts /\ ~raised) =>
        /\ \A i \in 1..Len(text_content) :
              text_content[i] # <<>> /\ str_strip(text_content[i]) = text_content[i]
        /\ DOMAIN line_mapping = 1..Len(text_content)
        /\ \A i \in 1..Len(text_content) : line_mapping[i] \in 1..LineCount(content)

\* A fragment that had to be trimmed out of its text token, and that no
\* source line holds.
C26_Witness ==
    /\ Extracts /\ ~raised
    /\ text_content # <<>>
    /\ \E i \in 1..Len(Events) :
          /\ Events[i].kind = "text"
          /\ str_strip(Events[i].text) \notin {<<>>, Events[i].text}
    /\ HoldingLines(1) = {}

\* The fragments that a heading may have been registered from: same text,
\* same line.
FragmentsOf(h) ==
    {i \in 1..Len(text_content) : text_content[i] = h.text /\ line_mapping[i] = h.line}

\* C27: after extract_content every heading has a level in 1..6, the text
\* of an extracted fragment and the line map value of that fragment, and
\* the headings are in the order of the fragments they come from.
C27_HeadingsOfFragments ==
    (Extracts /\ ~raised) =>
        /\ \A n \in 1..Len(headings) :
              headings[n].level \in 1..6 /\ FragmentsOf(headings[n]) # {}
        /\ \E from \in [1..Len(headings) -> 1..Len(text_content)] :
              /\ \A n \in 1..Len(headings) : from[n] \in FragmentsOf(headings[n])
              /\ \A n \in 1..(Len(headings) - 1) : from[n] < from[n + 1]

\* Two headings of different texts on the second source line, after a
\* first line.
C27_Witness ==
    /\ Extracts /\ ~raised
    /\ Len(headings) = 2
    /\ headings[1].text # headings[2].text
    /\ headings[1].line = 2 /\ headings[2].line = 2

\* The Edits of a call that pass the check of line 71, in the order in
\* which the call takes them.
PassedRangeCheck(c, fs) ==
    SelectSeq(sorted_fixes(fs), LAMBDA f : f.line_number <= LineCount(c))

\* C30: every apply_fixes call appends to fixes_applied exactly the Edits
\* that passed the line-range check, in application order, and nothing
\* else does: generate_fixes leaves fixes_applied as it is; the text a call
\* returns is that of a fixer that never applied anything.
C30_AppliedEditsRecorded ==
    [][/\ op' = "apply_fixes" =>
            /\ fixes_applied' = fixes_applied \o PassedRangeCheck(content, fixes)
            /\ result' = apply_fixes(content, fixes).text
       /\ op' = "generate_fixes" => fixes_applied' = fixes_applied]_vars

\* C28: every issue that check_content returns has the number of a source
\* line of the document, also where the document yields more fragments
\* than it has lines.
C28_IssueLinesInDocument ==
    Checks => \A k \in 1..Len(issues) : issues[k].line_number \in 1..LineCount(content)

(***************************************************************************)
(* Properties of the conversion to sentence case.                          *)
(***************************************************************************)
Converts == op = "convert_to_sentence_case"
IsAcronym(word) == str_upper(word) \in acronyms

\* C21: the conversion keeps the number of words; the first word of the
\* output is capitalized, every word that matches the acronym set in any
\* letter case is in upper case in the output, wherever it stands, and
\* every other word is in lower case.
C21_AcronymsKeptEverywhere ==
    Converts =>
        /\ Len(str_words(result)) = Len(str_words(content))
        /\ \A k \in 1..Len(str_words(content)) :
              IF IsAcronym(str_words(content)[k])
              THEN str_words(result)[k] = str_upper(str_words(content)[k])
              ELSE IF k = 1
              THEN str_words(result)[k] = str_capitalize(str_words(content)[k])
              ELSE str_words(result)[k] = str_lower(str_words(content)[k])

(***************************************************************************)
(* Properties of the Fixer's proposals.                                    *)
(***************************************************************************)
\* The items of deprecated_terms an issue of the rule was raised for
ItemsOf(issue) ==
    {k \in 1..Len(config.deprecated_terms) :
        issue.message \in
            {msg_deprecated_1 \o config.deprecated_terms[k][1] \o msg_deprecated_found,
             msg_deprecated_1 \o config.deprecated_terms[k][1] \o msg_deprecated_removed}}
DeprecatedIssues == {k \in 1..Len(issues) : issues[k].rule = "deprecated_terms"}
\* A term as it stands, or with its first letter in upper case
AsConfigured(term) == {term, <<char_upper[term[1]]>> \o Tail(term)}

\* C22: a deprecated term found in the document yields an issue, which is
\* not auto-fixable when the current term of the term is the sentinel
\* "Remove; no longer useful" and auto-fixable otherwise; no Edit that
\* generate_fixes returns, for any issues, has the sentinel as its
\* replacement; and the Edit for the issue of a term with a real current
\* term replaces with that current term (its first letter in upper case
\* where it replaces a capitalized text), with high confidence.
C22_DeprecatedTermEdits ==
    /\ (Checks \/ Generates) /\ Checked =>
          /\ \A i \in 1..Len(config.deprecated_terms) :
                str_contains(str_lower(content), str_lower(config.deprecated_terms[i][1]))
                    => \E k \in DeprecatedIssues : i \in ItemsOf(issues[k])
          /\ \A k \in DeprecatedIssues : \A i \in ItemsOf(issues[k]) :
                issues[k].can_auto_fix <=> config.deprecated_terms[i][2] # s_remove
    /\ Generates => \A j \in 1..Len(fixes) : fixes[j].fixed_text # s_remove
    /\ Generated =>
          \A k \in DeprecatedIssues : \A i \in ItemsOf(issues[k]) :
              issues[k].can_auto_fix =>
                 /\ \E j \in 1..Len(fixes) : k \in SourceIssue(fixes[j])
                 /\ \A j \in 1..Len(fixes) :
                       k \in SourceIssue(fixes[j]) =>
                          /\ fixes[j].fixed_text \in AsConfigured(config.deprecated_terms[i][2])
                          /\ fixes[j].confidence = "high"

\* The rules whose Edits are to target the text their issue reported
MatchRules == {"contractions", "oxford_comma", "deprecated_terms"}

\* C23: every Edit generate_fixes derives from a contractions, oxford_comma
\* or deprecated_terms issue of a check has, up to letter case, the
\* original text of that issue, also when a line raised several issues of
\* one rule.
C23_EditOfItsOwnIssue ==
    Generated =>
        \A j \in 1..Len(fixes) : \A k \in SourceIssue(fixes[j]) :
            issues[k].rule \in MatchRules =>
                str_lower(fixes[j].original_text) = str_lower(issues[k].original_text)

\* The text after applying one Edit alone
AppliedAlone(fix) == str_split(apply_fixes(content, <<fix>>).text)

\* C24: every Edit generate_fixes returns, whatever the strategy and the
\* letter case of the text it matched, has an original text that occurs
\* in its target line as it is written there, and a different
\* replacement, so that applying the Edit alone changes that line and no
\* other.
C24_OriginalOccursInLine ==
    Generates =>
        \A j \in 1..Len(fixes) :
            /\ fixes[j].line_number \in 1..Len(SourceLines)
            /\ str_contains(SourceLines[fixes[j].line_number], fixes[j].original_text)
            /\ fixes[j].original_text # fixes[j].fixed_text
            /\ Len(AppliedAlone(fixes[j])) = Len(SourceLines)
            /\ \A l \in 1..Len(SourceLines) :
                  AppliedAlone(fixes[j])[l] # SourceLines[l] <=> l = fixes[j].line_number

\* The Edits are those generate_fixes returns for the document and the
\* issues.
Proposed == fixes = generate_fixes(content, issues, config)

\* C29: applying the Edits that generate_fixes proposed is idempotent:
\* applying them again to the text they gave leaves that text as it is,
\* also when a replacement holds its own original text.
C29_ApplyIdempotent ==
    Returns /\ Proposed => apply_fixes(result, fixes).text = result

(***************************************************************************)
(* Properties of the pipeline run to its end.                              *)
(***************************************************************************)
\* check_content raised an auto-fixable issue of the rule, and
\* generate_fixes returned an Edit for it.
ReachedEndToEnd(rule) ==
    /\ Generated
    /\ \E k \in 1..Len(issues) :
          /\ issues[k].rule = rule
          /\ issues[k].can_auto_fix
          /\ \E j \in 1..Len(fixes) : k \in SourceIssue(fixes[j])

\* C25: each of the eight strategies of the Fixer is reached end to end:
\* for every rule the Fixer dispatches on, the runs come to a document and
\* a configuration where check_content raises an auto-fixable issue of the
\* rule and generate_fixes returns an Edit for it.
C25_EveryStrategyReached == \A rule \in FixRules : <>ReachedEndToEnd(rule)

====
